---- MODULE Spec2Model ----
(***************************************************************************)
(* A model of the storage core of cmu15-445: the LRU replacer, the         *)
(* extendible hash table and the B+Tree index with its leaf and internal   *)
(* page layouts.  Each component has its own specification (SpecLRU,       *)
(* SpecHash, SpecTree); the variables of the other components stay at      *)
(* their constructed values.                                               *)
(***************************************************************************)
EXTENDS Integers, Sequences, FiniteSets, TLC

\* ------------------------------------------------------------------ bounds
\* LRU: the elements are 1..MaxElem.
MaxElem == 3
\* Hash: the values are 1..MaxHashVal, the constructor's bucket size is
\* BucketSize, and Insert is not called when it would take the global depth
\* above MaxGlobalDepth.
MaxHashVal == 2
BucketSize == 2
MaxGlobalDepth == 3
\* B+Tree: the keys are 1..MaxKey, the record ids 1..MaxVal, a leaf page has
\* room for LeafMaxSize entries and an internal page for InternalMaxSize, at
\* most MaxPages pages are allocated, and no call is made that would take a
\* pin count above MaxPins.
MaxKey == 2
MaxVal == 2
LeafMaxSize == 3
InternalMaxSize == 3
MaxPages == 4
MaxPins == 3
\* Buffer pool: the pool has PoolSize frames; NewPage allocates up to
\* MaxNewPages pages beyond those on disk at the start; no call is made that
\* would take a pin count above MaxPoolPins.
PoolSize == 2
MaxNewPages == 1
MaxPoolPins == 2
MaxSplitKey == 4
MaxGrownKey == 6
MaxGrownPages == 7

VARIABLES
  \* LRU replacer (lru_replacer.cpp)
  list_,        \* std::list<T>: sequence of nodes, index 1 is list_.begin()
  map_,         \* std::map<T, list iterator>: element -> node
  lruOp,        \* the last call, what it returned, whether the element was held
                \* (hit) and whether it repeats the previous Insert (again)
  lruOrder,     \* history: the held elements by their most recent Insert, oldest first
  \* Extendible hash (extendible_hash.cpp, extendible_hash.h)
  global_depth_,
  buckets_,     \* std::vector<shared_ptr<Bucket>>: slot i is buckets_[i + 1]; a
                \* bucket reference is an index into heap, NullBucket is nullptr
  heap,         \* the Bucket objects: [id_, local_depth_, data_]
  hashOp,       \* the last call and what it returned
  hashModel,    \* history: the keys inserted and not removed since
  mutex_,       \* std::mutex: "free", or the call that holds it
  new_bucket,   \* Insert's local new_bucket and new_id while it holds the mutex
  seen,         \* what a second thread's GetGlobalDepth() and GetNumBuckets() returned
  \* B+Tree (b_plus_tree.cpp) over its pages, the buffer pool and the header page
  root_page_id_,
  pages,        \* page id -> the bytes of the page, read as a tree page
  pins,         \* page id -> pin count in the buffer pool
  header,       \* the header page's record for index_name_
  npid,         \* the page id the disk manager allocates next
  treeOp,       \* the last call and what it returned
  treeModel,    \* history: key -> value as Insert and Remove ask the tree to hold
  treeFresh,    \* history: every Insert so far was of a key not inserted before, and
                \* Remove was never called
  \* Buffer pool manager (buffer_pool_manager.h)
  pages_,       \* the frames: frame -> [page_id_, pin_count_, is_dirty_, data]
  page_table_,  \* page id -> frame, for the resident pages
  free_list_,   \* the frames that hold no page
  replacer_,    \* the replacer's frames, the most recently inserted first
  disk,         \* the disk manager's pages: page id -> bytes
  next_page_id_,\* the page id the disk manager allocates next
  poolOp,       \* the last call, what it returned and, in order, the disk writes
                \* and frame reuses it made
  unflushed     \* history: the resident pages unpinned as dirty and not written since

lruVars == <<list_, map_, lruOp, lruOrder>>
hashVars == <<global_depth_, buckets_, heap, hashOp, hashModel, mutex_, new_bucket, seen>>
treeVars == <<root_page_id_, pages, pins, header, npid, treeOp, treeModel, treeFresh>>
poolVars == <<pages_, page_table_, free_list_, replacer_, disk, next_page_id_, poolOp,
              unflushed>>
vars == <<list_, map_, lruOp, lruOrder,
          global_depth_, buckets_, heap, hashOp, hashModel, mutex_, new_bucket, seen,
          root_page_id_, pages, pins, header, npid, treeOp, treeModel, treeFresh,
          pages_, page_table_, free_list_, replacer_, disk, next_page_id_, poolOp, unflushed>>

\* A local variable of a function: the rest of the function, F, with the
\* variable holding v
Local(v, F(_)) == F(v)

\* ===========================================================================
\* LRU replacer
\* ===========================================================================
Elems == 1..MaxElem
\* A list iterator is the address of a list node.  Insert pushes the new node
\* before it erases the old one, so one more node than elements can be live.
NodeIds == 1..(MaxElem + 1)
NoElem == 0

ListNodes(l) == {l[i].node : i \in 1..Len(l)}
ListVals(l) == [i \in 1..Len(l) |-> l[i].val]

\* A list that links the new node at the tail instead
ListPushBack(l, n, x) == Append(l, [node |-> n, val |-> x])
\* list_.push_front(value) with the node the allocator hands out
ListPushFront(l, n, x) == <<[node |-> n, val |-> x]>> \o l

\* A list whose erase unlinks the first node, whatever the iterator
ListEraseFirst(l, n) == Tail(l)
\* A list whose erase unlinks nothing
ListEraseNothing(l, n) == l
\* list_.erase(iter)
ListErase(l, n) == SelectSeq(l, LAMBDA e : e.node # n)

\* *list_.begin(), the other end of the list
ListFront(l) == l[1].val
\* *(--list_.end())
ListBack(l) == l[Len(l)].val

\* list_.pop_back()
ListPopBack(l) == SubSeq(l, 1, Len(l) - 1)

\* map_[value] = iter
MapSet(m, x, n) == [y \in (DOMAIN m) \cup {x} |-> IF y = x THEN n ELSE m[y]]
\* map_.erase(value)
MapErase(m, x) == [y \in (DOMAIN m) \ {x} |-> m[y]]

\* history bookkeeping: drop x from the recency order
OrderWithout(o, x) == SelectSeq(o, LAMBDA y : y # x)

InitLRU ==
  /\ list_ = <<>>
  /\ map_ = <<>>
  /\ lruOp = [op |-> "none", arg |-> NoElem, ret |-> FALSE, val |-> NoElem,
              hit |-> FALSE, again |-> FALSE]
  /\ lruOrder = <<>>

\* LRUReplacer::Insert
LRUInsert(x) ==
  \E n \in NodeIds \ ListNodes(list_) :
    LET found == x \in DOMAIN map_
        pushed == ListPushFront(list_, n, x)
        erased == IF found THEN ListErase(pushed, map_[x]) ELSE pushed
    IN /\ list_' = erased
       /\ map_' = MapSet(map_, x, erased[1].node)
       /\ lruOp' = [op |-> "Insert", arg |-> x, ret |-> TRUE, val |-> NoElem, hit |-> found,
                    again |-> (lruOp.op = "Insert" /\ lruOp.arg = x)]
       /\ lruOrder' = Append(OrderWithout(lruOrder, x), x)
       /\ UNCHANGED <<hashVars, treeVars, poolVars>>

\* LRUReplacer::Victim
LRUVictim ==
  /\ UNCHANGED <<hashVars, treeVars, poolVars>>
  /\ IF list_ = <<>>
     THEN /\ lruOp' = [op |-> "Victim", arg |-> NoElem, ret |-> FALSE, val |-> NoElem,
                       hit |-> FALSE, again |-> FALSE]
          /\ UNCHANGED <<list_, map_, lruOrder>>
     ELSE LET value == ListBack(list_)
          IN /\ list_' = ListPopBack(list_)
             /\ map_' = MapErase(map_, value)
             /\ lruOp' = [op |-> "Victim", arg |-> NoElem, ret |-> TRUE, val |-> value,
                          hit |-> TRUE, again |-> FALSE]
             /\ lruOrder' = OrderWithout(lruOrder, value)

\* LRUReplacer::Erase
LRUErase(x) ==
  /\ UNCHANGED <<hashVars, treeVars, poolVars>>
  /\ IF x \notin DOMAIN map_
     THEN /\ lruOp' = [op |-> "Erase", arg |-> x, ret |-> FALSE, val |-> NoElem,
                       hit |-> FALSE, again |-> FALSE]
          /\ UNCHANGED <<list_, map_, lruOrder>>
     ELSE /\ list_' = ListErase(list_, map_[x])
          /\ map_' = MapErase(map_, x)
          /\ lruOp' = [op |-> "Erase", arg |-> x, ret |-> TRUE, val |-> NoElem,
                       hit |-> TRUE, again |-> FALSE]
          /\ lruOrder' = OrderWithout(lruOrder, x)

\* LRUReplacer::Size
Size == Len(list_)

NextLRU ==
  \/ \E x \in Elems : LRUInsert(x)
  \/ LRUVictim
  \/ \E x \in Elems : LRUErase(x)

\* --------------------------------------------------------------- LRU claims
HeldVals == {list_[i].val : i \in 1..Len(list_)}

\* C8: a Victim call on a non-empty replacer removes and returns the held
\* element whose most recent Insert is the oldest (the head of the recency
\* history) and nothing else; on an empty replacer it returns false and
\* changes nothing.
C8_VictimReturnsOldestInsert ==
  [][lruOp'.op = "Victim" =>
       IF lruOrder = <<>>
       THEN /\ lruOp'.ret = FALSE
            /\ list_' = list_
            /\ map_' = map_
       ELSE /\ lruOp'.ret = TRUE
            /\ lruOp'.val = Head(lruOrder)
            /\ {list_'[i].val : i \in 1..Len(list_')} = HeldVals \ {Head(lruOrder)}
            /\ Len(list_') = Len(list_) - 1]_vars

\* The spec's scenario: Insert 1,2,3; Victim -> 1; Insert 2; Victim -> 3,
\* leaving 2 as the only held element.
C8_Witness ==
  /\ lruOp.op = "Victim"
  /\ lruOp.ret = TRUE
  /\ lruOp.val = 3
  /\ ListVals(list_) = <<2>>
  /\ lruOrder = <<2>>

\* C9: Size() is the number of distinct elements inserted and not since
\* removed; the list holds no element twice; the map's keys are exactly the
\* list's elements and each key is mapped to the node that holds it.
C9_SizeCountsDistinctLive ==
  /\ Size = Cardinality({lruOrder[i] : i \in 1..Len(lruOrder)})
  /\ HeldVals = {lruOrder[i] : i \in 1..Len(lruOrder)}
  /\ \A i, j \in 1..Len(list_) : list_[i].val = list_[j].val => i = j
  /\ \A i, j \in 1..Len(list_) : list_[i].node = list_[j].node => i = j
  /\ DOMAIN map_ = HeldVals
  /\ \A i \in 1..Len(list_) : map_[list_[i].val] = list_[i].node

\* An element was inserted again while held, next to another held element.
C9_Witness ==
  /\ lruOp.op = "Insert"
  /\ lruOp.hit = TRUE
  /\ Size >= 2

\* C10: Insert(x) of a held element leaves Size as it was and makes x the
\* most recently used (the last to be chosen as victim), the other elements
\* keeping their order; Insert(x) right after Insert(x) leaves the list's
\* elements, their order and the map's keys as the first Insert left them.
C10_ReinsertIsIdempotent ==
  [][lruOp'.op = "Insert" =>
       LET x == lruOp'.arg IN
       /\ x \in DOMAIN map_ =>
            /\ Len(list_') = Len(list_)
            /\ ListVals(list_') = <<x>> \o OrderWithout(ListVals(list_), x)
       /\ (lruOp.op = "Insert" /\ lruOp.arg = x) =>
            /\ ListVals(list_') = ListVals(list_)
            /\ DOMAIN map_' = DOMAIN map_
            /\ map_'[x] = list_'[1].node]_vars

\* Insert(x) was called twice in a row with other elements held.
C10_Witness ==
  /\ lruOp.op = "Insert"
  /\ lruOp.hit = TRUE
  /\ lruOp.again = TRUE
  /\ Size = 3
  /\ ListVals(list_)[1] = lruOp.arg
  /\ lruOrder[3] = lruOp.arg

\* C11: Erase(x) returns true exactly when x is held (inserted and not since
\* removed); it then removes x alone, the other elements keeping their
\* relative victim order; when x is not held it returns false and leaves the
\* list and the map as they were.
C11_EraseRemovesOnlyX ==
  [][lruOp'.op = "Erase" =>
       LET x == lruOp'.arg
           held == \E i \in 1..Len(lruOrder) : lruOrder[i] = x
       IN /\ lruOp'.ret = held
          /\ held => /\ ListVals(list_') = OrderWithout(ListVals(list_), x)
                      /\ Len(list_') = Len(list_) - 1
                      /\ DOMAIN map_' = (DOMAIN map_) \ {x}
                      /\ \A y \in DOMAIN map_' : map_'[y] = map_[y]
          /\ ~held => /\ list_' = list_
                       /\ map_' = map_]_vars

\* Insert 1, 2, 3 and Erase(2): the element in the middle of the list is
\* gone, 3 and 1 keep their order.
C11_Witness ==
  /\ lruOp.op = "Erase"
  /\ lruOp.arg = 2
  /\ lruOp.ret = TRUE
  /\ ListVals(list_) = <<3, 1>>
  /\ lruOrder = <<1, 3>>

\* ===========================================================================
\* Extendible hash
\* ===========================================================================
\* The keys the calls draw from: 0, 1, 2, 4 (the keys of the spec's scenario)
\* and 7, whose low three bits are all set.
HashKeys == {0, 1, 2, 4, 7}
HashVals == 1..MaxHashVal
NullBucket == 0
NoVal == 0

Pow2(n) == 2 ^ n
BitOf(x, y) == (x \div Pow2(y)) % 2

\* #define SETBIT(x, y) (x | (1 << (y)))
SETBIT(x, y) == IF BitOf(x, y) = 1 THEN x ELSE x + Pow2(y)
\* #define GETBIT(x, y) (x & ~(0xFFFFFFFF << (y+1))): the low y+1 bits (y + 1 < 32)
GETBIT(x, y) == x % Pow2(y + 1)
\* #define ISZERO(x, y) (!(x & (1 << (y))))
ISZERO(x, y) == BitOf(x, y) = 0

\* Hasher<K>: std::hash of an integer key is the key itself
Hasher(k) == k

\* Bucket::Bucket(id, depth, size)
NewBucket(id, depth) == [id_ |-> id, local_depth_ |-> depth, data_ |-> <<>>]

\* std::map::insert: an entry whose key is already there is left as it is
MapInsert(d, k, v) ==
  IF k \in DOMAIN d THEN d ELSE [x \in (DOMAIN d) \cup {k} |-> IF x = k THEN v ELSE d[x]]

\* Bucket::Put: the bucket after the call, and the value returned
BucketPut(b, k, v) ==
  LET d == MapInsert(b.data_, k, v)
  IN [bucket |-> [b EXCEPT !.data_ = d],
      ret |-> (Cardinality(DOMAIN d) # BucketSize)]

\* Bucket::Get: whether the key is there, and the value stored for it
BucketGet(b, k) ==
  IF k \in DOMAIN b.data_
  THEN [crash |-> FALSE, found |-> TRUE, val |-> b.data_[k]]
  ELSE [crash |-> FALSE, found |-> FALSE, val |-> NoVal]

\* Bucket::Remove: the bucket after the call, and the value returned
BucketRemove(b, k) ==
  IF k \in DOMAIN b.data_
  THEN [bucket |-> [b EXCEPT !.data_ = [x \in (DOMAIN b.data_) \ {k} |-> b.data_[x]]],
        ret |-> TRUE]
  ELSE [bucket |-> b, ret |-> FALSE]

\* Bucket::Split: the bucket after the call and the new bucket it returns
BucketSplit(b) ==
  LET depth == b.local_depth_ + 1
      moved == {k \in DOMAIN b.data_ : ~ISZERO(Hasher(k), depth)}
  IN [old |-> [b EXCEPT !.local_depth_ = depth,
                        !.data_ = [x \in (DOMAIN b.data_) \ moved |-> b.data_[x]]],
      new |-> [id_ |-> SETBIT(b.id_, depth), local_depth_ |-> depth,
               data_ |-> [x \in moved |-> b.data_[x]]]]

\* ExtendibleHash::expand(id, bucket), called with global_depth_ = g already
\* incremented; ref is the new bucket's reference
Expand(dir, hp, g, id, ref) ==
  LET resized == [i \in 1..Pow2(g + 1) |-> IF i <= Len(dir) THEN dir[i] ELSE NullBucket]
      placed == [resized EXCEPT ![id + 1] = ref]
      Copied(i) == placed[i + 1] = NullBucket \/ hp[placed[i + 1]].local_depth_ < g
  IN [s \in 1..Pow2(g + 1) |->
        LET slot == s - 1
        IN IF slot >= Pow2(g) /\ Copied(slot - Pow2(g))
           THEN placed[slot - Pow2(g) + 1]
           ELSE placed[s]]

\* Bucket objects are told apart by their address only, and a bucket no
\* shared_ptr refers to any more is freed: the heap keeps the referenced
\* buckets, numbered by the first slot that refers to them.
RECURSIVE FirstRefs(_, _)
FirstRefs(dir, n) ==
  IF n = 0 THEN <<>>
  ELSE LET p == FirstRefs(dir, n - 1)
       IN IF dir[n] = NullBucket \/ \E j \in 1..Len(p) : p[j] = dir[n]
          THEN p
          ELSE Append(p, dir[n])
Renumber(g, dir, hp) ==
  LET order == FirstRefs(dir, Len(dir))
      Pos(r) == CHOOSE n \in 1..Len(order) : order[n] = r
  IN [g |-> g,
      dir |-> [i \in 1..Len(dir) |-> IF dir[i] = NullBucket THEN NullBucket ELSE Pos(dir[i])],
      hp |-> [n \in 1..Len(order) |-> hp[order[n]]]]

\* No split in progress
NoBucket == [id |-> 0, bucket |-> NewBucket(0, 0)]

\* ExtendibleHash::ExtendibleHash(size)
InitHash ==
  /\ global_depth_ = 0
  /\ heap = [i \in 1..Pow2(0 + 1) |-> NewBucket(i - 1, 0)]
  /\ buckets_ = [i \in 1..Pow2(0 + 1) |-> i]
  /\ hashOp = [op |-> "none", key |-> 0, ret |-> FALSE, val |-> NoVal, crash |-> FALSE]
  /\ hashModel = {}
  /\ mutex_ = "free"
  /\ new_bucket = NoBucket
  /\ seen = [depth |-> 0, num |-> Pow2(0 + 1)]

\* ExtendibleHash::GetGlobalDepth
GetGlobalDepth == global_depth_
\* ExtendibleHash::GetNumBuckets
GetNumBuckets == Len(buckets_)
\* ExtendibleHash::GetLocalDepth (of a slot that holds a bucket)
GetLocalDepth(slot) == heap[buckets_[slot + 1]].local_depth_

\* What Find(key) returns in the current state; the call dereferences the
\* slot's pointer, so it crashes when the slot holds nullptr
FindIn(g, dir, hp, k) ==
  LET id == GETBIT(Hasher(k), g)
  IN IF dir[id + 1] = NullBucket
     THEN [crash |-> TRUE, found |-> FALSE, val |-> NoVal]
     ELSE BucketGet(hp[dir[id + 1]], k)
FindResult(k) == FindIn(global_depth_, buckets_, heap, k)

\* ExtendibleHash::Find
HashFind(k) ==
  /\ ~hashOp.crash
  /\ LET r == FindResult(k)
     IN hashOp' = [op |-> "Find", key |-> k, ret |-> r.found, val |-> r.val, crash |-> r.crash]
  /\ UNCHANGED <<global_depth_, buckets_, heap, hashModel>>
  /\ UNCHANGED <<mutex_, new_bucket, seen>>
  /\ UNCHANGED <<lruVars, treeVars, poolVars>>

\* ExtendibleHash::Remove
HashRemove(k) ==
  /\ ~hashOp.crash
  /\ LET id == GETBIT(Hasher(k), global_depth_)
     IN IF buckets_[id + 1] = NullBucket
        THEN /\ hashOp' = [op |-> "Remove", key |-> k, ret |-> FALSE, val |-> NoVal, crash |-> TRUE]
             /\ UNCHANGED <<heap, hashModel>>
        ELSE LET r == BucketRemove(heap[buckets_[id + 1]], k)
             IN /\ heap' = [heap EXCEPT ![buckets_[id + 1]] = r.bucket]
                /\ hashOp' = [op |-> "Remove", key |-> k, ret |-> r.ret, val |-> NoVal, crash |-> FALSE]
                /\ hashModel' = hashModel \ {k}
  /\ UNCHANGED <<global_depth_, buckets_>>
  /\ UNCHANGED <<mutex_, new_bucket, seen>>
  /\ UNCHANGED <<lruVars, treeVars, poolVars>>

\* ExtendibleHash::Insert: the table [g, dir, hp] after Insert(k, v)
InsertResult(g, dir, hp, k, v) ==
  LET id == GETBIT(Hasher(k), g)
      ref == dir[id + 1]
  IN IF ref = NullBucket
     THEN [g |-> g,
           dir |-> [dir EXCEPT ![id + 1] = Len(hp) + 1],
           hp |-> Append(hp, BucketPut(NewBucket(id, 0), k, v).bucket)]
     ELSE LET put == BucketPut(hp[ref], k, v)
          IN IF put.ret
             THEN [g |-> g, dir |-> dir, hp |-> [hp EXCEPT ![ref] = put.bucket]]
             ELSE LET sp == BucketSplit(put.bucket)
                      new_id == sp.new.id_
                      newref == Len(hp) + 1
                      hp2 == Append([hp EXCEPT ![ref] = sp.old], sp.new)
                  IN IF sp.old.local_depth_ > g
                     THEN [g |-> g + 1,
                           dir |-> Expand(dir, hp2, g + 1, new_id, newref),
                           hp |-> hp2]
                     ELSE [g |-> g,
                           dir |-> [dir EXCEPT ![new_id + 1] = newref],
                           hp |-> hp2]

HashInsert(k, v) ==
  /\ ~hashOp.crash
  /\ LET t == InsertResult(global_depth_, buckets_, heap, k, v)
         r == Renumber(t.g, t.dir, t.hp)
     IN /\ r.g <= MaxGlobalDepth
        /\ global_depth_' = r.g
        /\ buckets_' = r.dir
        /\ heap' = r.hp
  /\ hashOp' = [op |-> "Insert", key |-> k, ret |-> TRUE, val |-> v, crash |-> FALSE]
  /\ hashModel' = hashModel \cup {k}
  /\ UNCHANGED <<mutex_, new_bucket, seen>>
  /\ UNCHANGED <<lruVars, treeVars, poolVars>>

NextHash ==
  \/ \E k \in HashKeys, v \in HashVals : HashInsert(k, v)
  \/ \E k \in HashKeys : HashFind(k)
  \/ \E k \in HashKeys : HashRemove(k)

\* -------------------------------------------------------------- hash claims
\* The buckets that hold an entry for key k
BucketsHolding(hp, k) == {r \in 1..Len(hp) : k \in DOMAIN hp[r].data_}
\* What Find(k) returns after the step
FindAfter(k) == FindIn(global_depth_', buckets_', heap', k)

\* C5: after any sequence of Insert and Remove calls, Find(k) returns true
\* for every key inserted and not removed since, and false for every other
\* key.
C5_FindAgreesWithHistory ==
  \A k \in HashKeys :
    /\ ~FindResult(k).crash
    /\ FindResult(k).found = (k \in hashModel)

\* C6: Insert(k, v') of a key already present replaces the stored value: a
\* following Find(k) returns v', and the table holds one entry for k.
C6_InsertReplacesValue ==
  [][hashOp'.op = "Insert" =>
       /\ FindAfter(hashOp'.key).found
       /\ FindAfter(hashOp'.key).val = hashOp'.val
       /\ Cardinality(BucketsHolding(heap', hashOp'.key)) = 1]_vars

\* C7: Remove(k) returns true exactly when k was present (inserted and not
\* removed since); afterwards Find(k) reports absence and Find on every
\* other key gives the same result as before; when k is absent Remove
\* returns false and changes nothing.
C7_RemoveReturnsPresence ==
  [][(hashOp'.op = "Remove" /\ ~hashOp'.crash) =>
       LET k == hashOp'.key IN
       /\ hashOp'.ret = (k \in hashModel)
       /\ ~FindAfter(k).found
       /\ \A o \in HashKeys \ {k} : FindAfter(o) = FindResult(o)
       /\ (k \notin hashModel => <<global_depth_, buckets_, heap>>' = <<global_depth_, buckets_, heap>>)]_vars

\* The part of C7 that the code keeps: Remove(k) returns what Find(k) would
\* have returned, Find(k) then reports absence, and nothing else changes.
C7_RemoveFollowsFind ==
  [][(hashOp'.op = "Remove" /\ ~hashOp'.crash) =>
       LET k == hashOp'.key IN
       /\ hashOp'.ret = FindResult(k).found
       /\ ~FindAfter(k).found
       /\ \A o \in HashKeys \ {k} : FindAfter(o) = FindResult(o)
       /\ (~FindResult(k).found => <<global_depth_, buckets_, heap>>' = <<global_depth_, buckets_, heap>>)]_vars

\* No slot of the directory holds nullptr
NoNullSlot == \A i \in 1..Len(buckets_) : buckets_[i] # NullBucket

\* C19: in every reachable state, starting from construction at global depth
\* 0, the directory length GetNumBuckets() reports is 2^GetGlobalDepth().
C19_DirectoryLength == GetNumBuckets = Pow2(GetGlobalDepth)

\* C20: in every reachable state all keys stored in one bucket agree on the
\* low hash bits its local depth covers (the bits GETBIT reads at that depth,
\* as Insert and Find address the directory), and that common pattern is the
\* bucket's id; a split sends each entry to the bucket matching its newly
\* examined hash bit.
C20_BucketKeysShareId ==
  \A r \in 1..Len(heap) : \A k \in DOMAIN heap[r].data_ :
    GETBIT(Hasher(k), heap[r].local_depth_) = heap[r].id_

\* ---------------------------------------------------------- two threads
\* One thread calls Insert, Find and Remove, which take mutex_ for the whole
\* call; Insert is cut where it has incremented global_depth_ and is about to
\* call expand.  A second thread calls GetGlobalDepth() and GetNumBuckets(),
\* which take no lock.

\* Insert up to and including ++global_depth_, when the split bucket's local
\* depth exceeds the global depth; the whole Insert otherwise
InsertLocked(k, v) ==
  /\ mutex_ = "free" /\ ~hashOp.crash
  /\ \E t \in {InsertResult(global_depth_, buckets_, heap, k, v)} :
       IF t.g = global_depth_
       THEN \E r \in {Renumber(t.g, t.dir, t.hp)} :
              /\ buckets_' = r.dir
              /\ heap' = r.hp
              /\ hashOp' = [op |-> "Insert", key |-> k, ret |-> TRUE, val |-> v, crash |-> FALSE]
              /\ UNCHANGED <<global_depth_, mutex_, new_bucket>>
       ELSE \E ref \in {buckets_[GETBIT(Hasher(k), global_depth_) + 1]} :
            \E sp \in {BucketSplit(BucketPut(heap[ref], k, v).bucket)} :
              /\ t.g <= MaxGlobalDepth
              /\ global_depth_' = global_depth_ + 1
              /\ heap' = [heap EXCEPT ![ref] = sp.old]
              /\ new_bucket' = [id |-> sp.new.id_, bucket |-> sp.new]
              /\ mutex_' = "Insert"
              /\ hashOp' = [op |-> "Insert", key |-> k, ret |-> FALSE, val |-> v, crash |-> FALSE]
              /\ UNCHANGED buckets_
  /\ hashModel' = hashModel \cup {k}
  /\ UNCHANGED seen
  /\ UNCHANGED <<lruVars, treeVars, poolVars>>

\* The rest of Insert: expand(new_id, new_bucket), return, unlock
InsertExpand ==
  /\ mutex_ = "Insert"
  /\ \E hp2 \in {Append(heap, new_bucket.bucket)} :
     \E r \in {Renumber(global_depth_,
                        Expand(buckets_, hp2, global_depth_, new_bucket.id, Len(hp2)), hp2)} :
       /\ buckets_' = r.dir
       /\ heap' = r.hp
  /\ mutex_' = "free"
  /\ new_bucket' = NoBucket
  /\ hashOp' = [hashOp EXCEPT !.ret = TRUE]
  /\ UNCHANGED <<global_depth_, hashModel, seen>>
  /\ UNCHANGED <<lruVars, treeVars, poolVars>>

\* Find and Remove wait for the mutex
FindLocked(k) == mutex_ = "free" /\ HashFind(k)
RemoveLocked(k) == mutex_ = "free" /\ HashRemove(k)

\* The second thread calls GetGlobalDepth() and GetNumBuckets(); neither
\* takes the mutex
ReadDepths ==
  /\ seen' = [depth |-> GetGlobalDepth, num |-> GetNumBuckets]
  /\ UNCHANGED <<global_depth_, buckets_, heap, hashOp, hashModel, mutex_, new_bucket>>
  /\ UNCHANGED <<lruVars, treeVars, poolVars>>

NextHashThreads ==
  \/ \E k \in HashKeys \ {7}, v \in HashVals : InsertLocked(k, v)
  \/ InsertExpand
  \/ \E k \in HashKeys \ {7} : FindLocked(k)
  \/ \E k \in HashKeys \ {7} : RemoveLocked(k)
  \/ ReadDepths

\* C24: every public operation, GetGlobalDepth, GetLocalDepth and
\* GetNumBuckets included, runs under the table-wide mutex, so a thread
\* running concurrently with Insert never observes the global depth already
\* incremented while the directory still has its old length: what it reads
\* is the depth and length of a table no call is working on.
C24_ReaderSeesSettledTable ==
  /\ seen.num = Pow2(seen.depth + 1)
  /\ [][seen' # seen => mutex_ = "free"]_vars

\* C21: in every reachable state, for every directory slot s,
\* GetLocalDepth(s) <= GetGlobalDepth().  GetLocalDepth(s) reads the bucket
\* of slot s through its pointer, so the slot has to hold one.
C21_LocalDepthWithinGlobal ==
  \A s \in 0..(GetNumBuckets - 1) :
    /\ buckets_[s + 1] # NullBucket
    /\ GetLocalDepth(s) <= GetGlobalDepth

\* Keys whose hash values agree on their low three bits, so that a split does
\* not separate them
DeepKeys == {0, 8, 16}
NextHashDeep ==
  \/ \E k \in DeepKeys, v \in HashVals : HashInsert(k, v)
  \/ \E k \in DeepKeys : HashFind(k)
  \/ \E k \in DeepKeys : HashRemove(k)

\* C22: after every Insert returns no bucket holds more entries than the
\* bucket size given to the constructor: a bucket still over capacity after
\* one split is split again until the entries fit.
C22_BucketsWithinCapacity ==
  hashOp.op = "Insert" =>
    \A r \in 1..Len(heap) : Cardinality(DOMAIN heap[r].data_) <= BucketSize

\* The directory slots that refer to bucket r
SlotsOf(r) == {s \in 0..(Len(buckets_) - 1) : buckets_[s + 1] = r}

\* C23: in every reachable state a bucket with local depth L under global
\* depth G is referenced by exactly 2^(G-L) directory slots, namely all
\* slots whose low bits (the bits GETBIT reads at depth L) equal the
\* bucket's id, also after a split whose new local depth is below G.
C23_AliasSlots ==
  \A r \in 1..Len(heap) :
    /\ heap[r].local_depth_ <= global_depth_
    /\ Cardinality(SlotsOf(r)) = Pow2(global_depth_ - heap[r].local_depth_)
    /\ SlotsOf(r) = {s \in 0..(Len(buckets_) - 1) : GETBIT(s, heap[r].local_depth_) = heap[r].id_}

\* A table just constructed, and table t after Insert(k, 1)
NewHashTable ==
  [g |-> 0, dir |-> [i \in 1..Pow2(0 + 1) |-> i],
   hp |-> [i \in 1..Pow2(0 + 1) |-> NewBucket(i - 1, 0)]]
AfterInsert(t, k) == InsertResult(t.g, t.dir, t.hp, k, 1)
\* A table without its values: depth, directory, and each bucket's keys, the
\* buckets numbered as the states number them
ShapeOf(t) ==
  <<t.g, t.dir, [r \in 1..Len(t.hp) |-> <<t.hp[r].id_, t.hp[r].local_depth_, DOMAIN t.hp[r].data_>>]>>
Shape(t) == ShapeOf(Renumber(t.g, t.dir, t.hp))
HashTable == [g |-> global_depth_, dir |-> buckets_, hp |-> heap]
\* The keys of the bucket directory slot s refers to, after the step
KeysAtSlotAfter(s) == DOMAIN heap'[buckets_'[s + 1]].data_

\* C25: with bucket size 2, an identity hash and initial global depth 0,
\* after Insert of keys 0, 1, 2 the global depth is 1, the bucket at slot 0
\* holds keys {0,2} and the bucket at slot 1 holds key 1; a following Insert
\* of key 4 splits slot 0's bucket again, the global depth becomes 2, and
\* Find(0), Find(2), Find(4) all succeed.
C25_SplitScenario ==
  [][/\ (/\ Shape(HashTable) = Shape(AfterInsert(AfterInsert(NewHashTable, 0), 1))
         /\ hashOp'.op = "Insert" /\ hashOp'.key = 2)
        => (/\ global_depth_' = 1
            /\ KeysAtSlotAfter(0) = {0, 2}
            /\ KeysAtSlotAfter(1) = {1})
     /\ (/\ Shape(HashTable) = Shape(AfterInsert(AfterInsert(AfterInsert(NewHashTable, 0), 1), 2))
         /\ hashOp'.op = "Insert" /\ hashOp'.key = 4)
        => (/\ global_depth_' = 2
            /\ \A k \in {0, 2, 4} : FindAfter(k).found)]_vars

\* C37: in every reachable state every directory slot references a bucket:
\* after each directory doubling every slot of the new upper half has been
\* filled, so Find and Remove never dereference an empty slot and Insert
\* never has to create a fresh depth-0 bucket for an empty slot.
C37_EverySlotHasBucket ==
  /\ NoNullSlot
  /\ ~hashOp.crash

\* ===========================================================================
\* B+Tree pages
\* ===========================================================================
Keys == 1..MaxKey
Vals == 1..MaxVal
INVALID_PAGE_ID == -1
HEADER_PAGE_ID == 0


\* std::pair<KeyType, ValueType>
Pair(k, v) == [first |-> k, second |-> v]
\* What the bytes of a slot nobody has written can hold: zeroes, or any
\* stale key and value
StalePairs == {Pair(0, 0)} \cup {Pair(k, v) : k \in 1..MaxKey, v \in 1..MaxVal}

\* array[i] of a page (C index, from 0); a read past the page's last slot
\* gives the zero pair
At(arr, i) == IF (i + 1) \in DOMAIN arr THEN arr[i + 1] ELSE Pair(0, 0)
\* array[i] = e; a write past the page's last slot is dropped
Put(arr, i, e) == IF (i + 1) \in DOMAIN arr THEN [arr EXCEPT ![i + 1] = e] ELSE arr
\* memmove(array + dest, array + src, n * sizeof(MappingType))
Memmove(arr, dest, src, n) ==
  [j \in DOMAIN arr |->
     IF (j - 1) >= dest /\ (j - 1) < dest + n THEN At(arr, src + (j - 1 - dest)) ELSE arr[j]]

\* KeyComparator: -1, 0 or 1
Compare(a, b) == IF a < b THEN -1 ELSE IF a > b THEN 1 ELSE 0

\* The loop of BinarySearch; start and end are size_t
RECURSIVE BinarySearchLoop(_, _, _, _)
BinarySearchLoop(arr, key, start, end) ==
  IF ~(start < end) THEN start
  ELSE LET middle == start + ((end - start) \div 2)
       IN IF Compare(At(arr, middle).first, key) < 0
          THEN BinarySearchLoop(arr, key, middle + 1, end)
          ELSE IF Compare(At(arr, middle).first, key) > 0
               THEN BinarySearchLoop(arr, key, start, middle)
               ELSE middle

\* BinarySearch(array, size, key, cmp).  With size = 0 the unsigned end wraps
\* to the largest size_t and the loop reads far outside the page; no action
\* of this model searches an empty page.
BinarySearch(arr, size, key) ==
  IF size = 0 THEN 1 ELSE BinarySearchLoop(arr, key, 1, size - 1)

\* The slots of a page's array
PageSlots == IF LeafMaxSize > InternalMaxSize THEN LeafMaxSize ELSE InternalMaxSize

\* The bytes NewPage hands out before any Init: a zeroed page header (page
\* type INVALID_INDEX_PAGE, every integer 0) and an array of unwritten slots
RawPages ==
  {[type |-> "INVALID_INDEX_PAGE", size |-> 0, max_size |-> 0, page_id |-> 0,
    parent_page_id |-> 0, next_page_id |-> 0, array |-> a] :
     a \in [1..PageSlots -> StalePairs]}

\* BPlusTreeLeafPage::Init
LeafInit(raw, page_id, parent_id) ==
  [type |-> "LEAF_PAGE", size |-> 0, max_size |-> LeafMaxSize, page_id |-> page_id,
   parent_page_id |-> parent_id, next_page_id |-> INVALID_PAGE_ID, array |-> raw.array]

\* BPlusTreeLeafPage::KeyIndex
LeafKeyIndex(pg, key) == BinarySearch(pg.array, pg.size, key)

\* BPlusTreeLeafPage::Insert: the page after the call (it returns size + 1)
LeafInsert(pg, key, value) ==
  LET size == pg.size
      arr == pg.array
  IN IF size = 0 \/ Compare(key, At(arr, size - 1).first) > 0
     THEN [pg EXCEPT !.array = Put(arr, size, Pair(key, value)), !.size = size + 1]
     ELSE IF Compare(key, At(arr, 0).first) < 0
          THEN [pg EXCEPT !.array = Put(Memmove(arr, 1, 0, size), 0, Pair(key, value)),
                          !.size = size + 1]
          ELSE LET insert_index == LeafKeyIndex(pg, key)
               IN [pg EXCEPT !.array = Put(Memmove(arr, insert_index, insert_index + 1,
                                                   size - insert_index),
                                           insert_index, Pair(key, value)),
                             !.size = size + 1]

\* BPlusTreeLeafPage::Lookup: whether the key is reported found, and the value
\* stored in the out parameter
LeafLookup(pg, key) ==
  LET index == BinarySearch(pg.array, pg.size, key)
  IN IF index = -1
     THEN [found |-> FALSE, value |-> 0]
     ELSE [found |-> TRUE, value |-> At(pg.array, index).second]

\* BPlusTreeLeafPage::MoveHalfTo with CopyHalfFrom: this page and the
\* recipient after the call
LeafMoveHalfTo(pg, recipient) ==
  LET size == pg.size
      half == (1 + size) \div 2
      start == recipient.size
  IN [node |-> [pg EXCEPT !.size = size - half],
      recipient |-> [recipient EXCEPT
                       !.array = [j \in DOMAIN recipient.array |->
                                    IF (j - 1) >= start /\ (j - 1) < start + half
                                    THEN At(pg.array, size - half + (j - 1 - start))
                                    ELSE recipient.array[j]],
                       !.size = start + half]]

\* BPlusTreeInternalPage::Init
InternalInit(raw, page_id, parent_id) ==
  [type |-> "INTERNAL_PAGE", size |-> 0, max_size |-> InternalMaxSize, page_id |-> page_id,
   parent_page_id |-> parent_id, next_page_id |-> raw.next_page_id, array |-> raw.array]

\* The loop of BPlusTreeInternalPage::ValueIndex: <<start, end, middle>> when
\* it ends
RECURSIVE ValueIndexLoop(_, _, _, _, _)
ValueIndexLoop(arr, value, start, end, middle) ==
  IF ~(start <= end) THEN <<start, end, middle>>
  ELSE LET mid == start + ((end - start) \div 2)
       IN IF At(arr, mid).second > value
          THEN ValueIndexLoop(arr, value, start, mid - 1, mid)
          ELSE IF At(arr, mid).second < value
               THEN ValueIndexLoop(arr, value, mid + 1, end, mid)
               ELSE <<start, end, mid>>

\* BPlusTreeInternalPage::ValueIndex
InternalValueIndex(pg, value) ==
  LET r == ValueIndexLoop(pg.array, value, 0, pg.size - 1, 0)
  IN IF r[1] <= r[2] THEN r[3] ELSE -1

\* BPlusTreeInternalPage::Lookup
InternalLookup(pg, key) ==
  LET size == pg.size
      left == 1
      right == size - 1
  IN IF Compare(key, At(pg.array, left).first) < 0
     THEN At(pg.array, left - 1).second
     ELSE IF Compare(key, At(pg.array, right).first) > 0
          THEN At(pg.array, right).second
          ELSE At(pg.array, BinarySearch(pg.array, size, key) - 1).second

\* BPlusTreeInternalPage::PopulateNewRoot
InternalPopulateNewRoot(pg, old_value, new_key, new_value) ==
  [pg EXCEPT !.array = Put(Put(pg.array, 0, Pair(At(pg.array, 0).first, old_value)),
                           1, Pair(new_key, new_value)),
             !.size = pg.size + 2]

\* BPlusTreeInternalPage::InsertNodeAfter: the page after the call
InternalInsertNodeAfter(pg, old_value, new_key, new_value) ==
  LET size == pg.size
      old_index == InternalValueIndex(pg, old_value)
      dest_index == old_index + 2
      src_index == old_index + 1
  IN [pg EXCEPT !.array = Memmove(pg.array, dest_index, src_index, size - src_index),
                !.size = size + 1]

\* ===========================================================================
\* Buffer pool and header page, as the tree uses them
\* ===========================================================================
\* The tree's world: [root, pages, pins, header, npid]; pages maps the page
\* ids handed out so far to their bytes, pins maps them (and the header page)
\* to their pin count, header is the header page's record for the index.
NoRecord == [present |-> FALSE, root |-> INVALID_PAGE_ID]

Resident(m, pid) == pid \in DOMAIN m.pages

\* BufferPoolManager::FetchPage of a page held by the pool (the pool is large
\* enough, no request fails); a page id never handed out gives nullptr
FetchPage(m, pid) ==
  IF pid \in DOMAIN m.pins THEN [m EXCEPT !.pins[pid] = @ + 1] ELSE m

\* BufferPoolManager::UnpinPage
UnpinPage(m, pid) ==
  IF pid \in DOMAIN m.pins /\ m.pins[pid] > 0 THEN [m EXCEPT !.pins[pid] = @ - 1] ELSE m

\* BufferPoolManager::NewPage: the next page id, pinned once, bytes raw
NewPage(m, raw) ==
  [m EXCEPT !.pages = [q \in (DOMAIN m.pages) \cup {m.npid} |->
                         IF q = m.npid THEN raw ELSE m.pages[q]],
            !.pins = [q \in (DOMAIN m.pins) \cup {m.npid} |->
                        IF q = m.npid THEN 1 ELSE m.pins[q]],
            !.npid = m.npid + 1]

\* HeaderPage::InsertRecord / UpdateRecord for the index's name
HeaderInsertRecord(h, root) == IF h.present THEN h ELSE [present |-> TRUE, root |-> root]
HeaderUpdateRecord(h, root) == IF h.present THEN [h EXCEPT !.root = root] ELSE h

\* ===========================================================================
\* B+Tree
\* ===========================================================================
\* BPlusTree::IsEmpty
IsEmpty(m) == m.root = INVALID_PAGE_ID

\* UpdateRootPageId that only ever calls InsertRecord
UpdateRootPageIdInsertOnly(m, insert_record) ==
  Local(FetchPage(m, HEADER_PAGE_ID), LAMBDA m1 :
    UnpinPage([m1 EXCEPT !.header = HeaderInsertRecord(m1.header, m1.root)], HEADER_PAGE_ID))

\* BPlusTree::UpdateRootPageId
UpdateRootPageId(m, insert_record) ==
  Local(FetchPage(m, HEADER_PAGE_ID), LAMBDA m1 :
    UnpinPage([m1 EXCEPT !.header = IF insert_record
                                     THEN HeaderInsertRecord(m1.header, m1.root)
                                     ELSE HeaderUpdateRecord(m1.header, m1.root)],
              HEADER_PAGE_ID))

\* The loop of BPlusTree::FindLeafPage.  page_id is the id last fetched,
\* btree is the page btree_page points to; junk is the child id read when
\* the internal-page Lookup is applied to the bytes of a leaf.
RECURSIVE FindLeafLoop(_, _, _, _, _, _, _)
FindLeafLoop(m, page_id, btree, key, leftMost, junk, fuel) ==
  IF fuel = 0 \/ ~Resident(m, page_id) \/ m.pages[btree].type = "LEAF_PAGE"
  THEN [m |-> m, leaf |-> btree]
  ELSE Local(m.pages[page_id], LAMBDA cur :
       Local(IF cur.type = "LEAF_PAGE" THEN junk
             ELSE IF leftMost THEN At(cur.array, 0).second
             ELSE InternalLookup(cur, key), LAMBDA next :
         FindLeafLoop(FetchPage(UnpinPage(m, page_id), next), next, page_id, key, leftMost,
                      junk, fuel - 1)))

\* BPlusTree::FindLeafPage: the pool after the call and the page returned
FindLeafPage(m, key, leftMost, junk) ==
  FindLeafLoop(FetchPage(m, m.root), m.root, m.root, key, leftMost, junk, MaxPages + 1)

\* BPlusTree::GetValue on a tree that is not empty: the pool after the call,
\* the value returned and the values appended to result
GetValue(m, key, junk) ==
  Local(FindLeafPage(FetchPage(m, m.root), key, FALSE, junk), LAMBDA f :
  Local(LeafLookup(f.m.pages[f.leaf], key), LAMBDA r :
    IF r.found
    THEN [m |-> UnpinPage(f.m, f.leaf), ret |-> TRUE, result |-> <<r.value>>]
    ELSE [m |-> f.m, ret |-> FALSE, result |-> <<>>]))

\* BPlusTree::StartNewTree
StartNewTree(m, key, value, raw) ==
  Local([NewPage(m, raw) EXCEPT !.root = m.npid], LAMBDA m1 :
  Local(UpdateRootPageId(m1, TRUE), LAMBDA m2 :
  Local(LeafInsert(LeafInit(m2.pages[m2.root], m2.root, INVALID_PAGE_ID), key, value),
        LAMBDA leaf :
    UnpinPage([m2 EXCEPT !.pages[m2.root] = leaf], m2.root))))

\* The children of the moved entries are fetched, given the recipient as
\* parent and unpinned (BPlusTreeInternalPage::CopyHalfFrom); entry i of n
RECURSIVE Reparent(_, _, _, _)
Reparent(m, items, n, parent_id) ==
  IF n = 0 THEN m
  ELSE Local(Reparent(m, items, n - 1, parent_id), LAMBDA m1 :
       Local(items[n].second, LAMBDA child :
         IF Resident(m1, child)
         THEN [m1 EXCEPT !.pages[child].parent_page_id = parent_id]
         ELSE m1))

\* BPlusTreeInternalPage::MoveHalfTo with CopyHalfFrom, the entries only
InternalMoveHalfTo(pg, recipient) ==
  LET size == pg.size
      half == (1 + size) \div 2
      start == recipient.size
  IN [node |-> [pg EXCEPT !.size = size - half],
      recipient |-> [recipient EXCEPT
                       !.array = [j \in DOMAIN recipient.array |->
                                    IF (j - 1) >= start /\ (j - 1) < start + half
                                    THEN At(pg.array, size - half + (j - 1 - start))
                                    ELSE recipient.array[j]],
                       !.size = start + half]]

\* BPlusTree::Split of a leaf page: NewPage, Init, MoveHalfTo
SplitLeaf(m, node, raw) ==
  Local(m.npid, LAMBDA page_id :
  Local(NewPage(m, raw), LAMBDA m1 :
  Local(LeafInit(m1.pages[page_id], page_id, m1.pages[node].parent_page_id), LAMBDA new_node :
  Local(LeafMoveHalfTo(m1.pages[node], new_node), LAMBDA moved :
    [m |-> [m1 EXCEPT !.pages[node] = moved.node, !.pages[page_id] = moved.recipient],
     new_node |-> page_id]))))

\* BPlusTree::Split of an internal page: NewPage, Init, MoveHalfTo (which
\* also re-parents the moved children)
SplitInternal(m, node, raw) ==
  Local(m.npid, LAMBDA page_id :
  Local(NewPage(m, raw), LAMBDA m1 :
  Local(InternalInit(m1.pages[page_id], page_id, m1.pages[node].parent_page_id),
        LAMBDA new_node :
  Local(InternalMoveHalfTo(m1.pages[node], new_node), LAMBDA moved :
  Local(moved.recipient.size, LAMBDA half :
  Local([m1 EXCEPT !.pages[node] = moved.node, !.pages[page_id] = moved.recipient],
        LAMBDA m2 :
    [m |-> Reparent(m2, SubSeq(moved.recipient.array, 1, half), half, page_id),
     new_node |-> page_id]))))))

\* BPlusTree::InsertIntoParent.  raws are the bytes of the pages NewPage hands
\* out, in order.
RECURSIVE InsertIntoParent(_, _, _, _, _)
InsertIntoParent(m, old_node, key, new_node, raws) ==
  IF m.pages[old_node].parent_page_id = INVALID_PAGE_ID
  THEN \* old_node->IsRootPage()
       Local(m.npid, LAMBDA root :
       Local([NewPage(m, Head(raws)) EXCEPT !.root = root], LAMBDA m1 :
         UpdateRootPageId(
           [m1 EXCEPT
              !.pages[root] = InternalPopulateNewRoot(m1.pages[root], old_node, key, new_node),
              !.pages[old_node].parent_page_id = root,
              !.pages[new_node].parent_page_id = root],
           FALSE)))
  ELSE Local(m.pages[old_node].parent_page_id, LAMBDA parent :
         IF ~Resident(m, parent) THEN m
         ELSE IF m.pages[parent].size < m.pages[parent].max_size
         THEN UnpinPage([m EXCEPT !.pages[parent] =
                           InternalInsertNodeAfter(m.pages[parent], old_node, key, new_node)],
                        parent)
         ELSE Local(SplitInternal(m, parent, Head(raws)), LAMBDA sp :
              Local(sp.new_node, LAMBDA new_page :
              Local(At(sp.m.pages[new_page].array, 0).first, LAMBDA mid_key :
              Local(IF Compare(key, mid_key) < 0
                    THEN [sp.m EXCEPT !.pages[parent] =
                            InternalInsertNodeAfter(sp.m.pages[parent], old_node, key, new_node)]
                    ELSE [sp.m EXCEPT
                            !.pages[new_page] =
                              InternalInsertNodeAfter(sp.m.pages[new_page], old_node, key,
                                                      new_node),
                            !.pages[new_node].parent_page_id = new_page], LAMBDA m1 :
              Local(InsertIntoParent(m1, parent, key, new_page, Tail(raws)), LAMBDA m2 :
                UnpinPage(UnpinPage(m2, new_page), parent)))))))

\* BPlusTree::InsertIntoLeaf for a key that Lookup reports absent from the
\* pinned leaf: in place if the leaf has room, else Split, InsertIntoParent
\* and the insertion into the half the key belongs to
InsertIntoLeafAbsent(m, leaf, key, value, raws) ==
  Local(m.pages[leaf], LAMBDA page :
    IF page.size < page.max_size
    THEN [m |-> UnpinPage([m EXCEPT !.pages[leaf] = LeafInsert(page, key, value)], leaf),
          ret |-> TRUE]
    ELSE Local(SplitLeaf(m, leaf, Head(raws)), LAMBDA sp :
         Local(sp.new_node, LAMBDA new_leaf :
         Local([sp.m EXCEPT
                  !.pages[new_leaf].next_page_id = sp.m.pages[leaf].next_page_id,
                  !.pages[leaf].next_page_id = new_leaf], LAMBDA m1 :
         Local(At(m1.pages[new_leaf].array, 0).first, LAMBDA mid_key :
         Local(InsertIntoParent(m1, leaf, mid_key, new_leaf, Tail(raws)), LAMBDA m2 :
         Local(IF Compare(key, mid_key) < 0 THEN leaf ELSE new_leaf, LAMBDA target :
           [m |-> UnpinPage(UnpinPage(
                    [m2 EXCEPT !.pages[target] = LeafInsert(m2.pages[target], key, value)],
                    new_leaf), leaf),
            ret |-> TRUE])))))))

\* BPlusTree::InsertIntoLeaf: the pool after the call and the value returned
InsertIntoLeaf(m, key, value, raws, junk) ==
  Local(FindLeafPage(m, key, FALSE, junk), LAMBDA f :
    IF LeafLookup(f.m.pages[f.leaf], key).found
    THEN [m |-> f.m, ret |-> FALSE]
    ELSE InsertIntoLeafAbsent(f.m, f.leaf, key, value, raws))

\* BPlusTree::Insert
TreeInsert(m, key, value, raws, junk) ==
  IF IsEmpty(m)
  THEN [m |-> StartNewTree(m, key, value, Head(raws)), ret |-> TRUE]
  ELSE InsertIntoLeaf(m, key, value, raws, junk)

\* BPlusTree::CoalesceOrRedistribute
CoalesceOrRedistribute(m, node) == [m |-> m, ret |-> FALSE]

\* BPlusTreePage::GetMinSize
GetMinSize(pg) == (pg.max_size + 1) \div 2

\* BPlusTree::Remove on a tree that is not empty
TreeRemove(m, key, junk) ==
  Local(FindLeafPage(m, key, FALSE, junk), LAMBDA f :
    IF f.m.pages[f.leaf].size < GetMinSize(f.m.pages[f.leaf])
    THEN CoalesceOrRedistribute(f.m, f.leaf).m
    ELSE f.m)

\* The tree's world in the current state, and after the step
Tree == [root |-> root_page_id_, pages |-> pages, pins |-> pins, header |-> header,
         npid |-> npid]
TreeAfter == [root |-> root_page_id_', pages |-> pages', pins |-> pins', header |-> header',
              npid |-> npid']

\* BPlusTree::BPlusTree over a fresh pool: no root, the header page resident
InitTree ==
  /\ root_page_id_ = INVALID_PAGE_ID
  /\ pages = <<>>
  /\ pins = [q \in {HEADER_PAGE_ID} |-> 0]
  /\ header = NoRecord
  /\ npid = 1
  /\ treeOp = [op |-> "none", key |-> 0, val |-> 0, ret |-> FALSE, result |-> <<>>]
  /\ treeModel = <<>>
  /\ treeFresh = TRUE

\* The step to world m stays within the model's bounds
WithinBounds(m) ==
  /\ m.npid <= MaxPages + 1
  /\ \A q \in DOMAIN m.pins : m.pins[q] <= MaxPins

SetTree(m) ==
  /\ WithinBounds(m)
  /\ root_page_id_' = m.root
  /\ pages' = m.pages
  /\ pins' = m.pins
  /\ header' = m.header
  /\ npid' = m.npid

\* The choices a call leaves to the memory it reads: the bytes of the pages
\* NewPage hands out (one image for all pages of a call), needed only by a
\* call that allocates, and the child id read off a leaf's bytes, needed only
\* when the root is not a leaf
ZeroRaw ==
  [type |-> "INVALID_INDEX_PAGE", size |-> 0, max_size |-> 0, page_id |-> 0,
   parent_page_id |-> 0, next_page_id |-> 0, array |-> [j \in 1..PageSlots |-> Pair(0, 0)]]
Allocates(m, key) ==
  \/ IsEmpty(m)
  \/ Local(FindLeafPage(m, key, FALSE, INVALID_PAGE_ID), LAMBDA f :
       /\ ~LeafLookup(f.m.pages[f.leaf], key).found
       /\ ~(f.m.pages[f.leaf].size < f.m.pages[f.leaf].max_size))
RawChoices(m, key) == IF Allocates(m, key) THEN RawPages ELSE {ZeroRaw}
JunkChoices(m) ==
  IF IsEmpty(m) \/ m.pages[m.root].type = "LEAF_PAGE"
  THEN {INVALID_PAGE_ID}
  ELSE {INVALID_PAGE_ID} \cup 0..MaxPages

\* A call of BPlusTree::Insert
Insert(key, value) ==
  \E raw \in RawChoices(Tree, key), junk \in JunkChoices(Tree) :
    \E r \in {TreeInsert(Tree, key, value, [i \in 1..MaxPages |-> raw], junk)} :
       /\ SetTree(r.m)
       /\ treeOp' = [op |-> "Insert", key |-> key, val |-> value, ret |-> r.ret, result |-> <<>>]
       /\ treeModel' = IF key \in DOMAIN treeModel THEN treeModel
                       ELSE [x \in (DOMAIN treeModel) \cup {key} |->
                               IF x = key THEN value ELSE treeModel[x]]
       /\ treeFresh' = (treeFresh /\ key \notin DOMAIN treeModel)
       /\ UNCHANGED <<lruVars, hashVars, poolVars>>

\* A call of BPlusTree::GetValue with an empty result vector.  On an empty
\* tree the call dereferences the null page FetchPage(INVALID_PAGE_ID)
\* returns; the model makes the call on a tree with a root only.
GetValueCall(key) ==
  /\ ~IsEmpty(Tree)
  /\ \E junk \in JunkChoices(Tree) :
       \E r \in {GetValue(Tree, key, junk)} :
          /\ SetTree(r.m)
          /\ treeOp' = [op |-> "GetValue", key |-> key, val |-> 0, ret |-> r.ret, result |-> r.result]
  /\ UNCHANGED <<treeModel, treeFresh>>
  /\ UNCHANGED <<lruVars, hashVars, poolVars>>

\* A call of BPlusTree::Remove
Remove(key) ==
  /\ IF IsEmpty(Tree)
     THEN UNCHANGED <<root_page_id_, pages, pins, header, npid>>
     ELSE \E junk \in JunkChoices(Tree) : \E m \in {TreeRemove(Tree, key, junk)} : SetTree(m)
  /\ treeOp' = [op |-> "Remove", key |-> key, val |-> 0, ret |-> FALSE, result |-> <<>>]
  /\ treeModel' = [x \in (DOMAIN treeModel) \ {key} |-> treeModel[x]]
  /\ treeFresh' = FALSE
  /\ UNCHANGED <<lruVars, hashVars, poolVars>>

NextTree ==
  \/ \E k \in Keys, v \in Vals : Insert(k, v)
  \/ \E k \in Keys : GetValueCall(k)
  \/ \E k \in Keys : Remove(k)

\* ------------------------------------------------------------ B+Tree claims
\* The keys the leaves of m hold in their first size slots
StoredKeys(m) ==
  {m.pages[q].array[i].first :
     q \in {p \in DOMAIN m.pages : m.pages[p].type = "LEAF_PAGE"}, i \in 1..PageSlots} \cap
  {k \in Keys : \E q \in DOMAIN m.pages :
                  /\ m.pages[q].type = "LEAF_PAGE"
                  /\ \E i \in 1..m.pages[q].size : m.pages[q].array[i].first = k}

\* What GetValue(key) returns on m: the return value and the result vector
GetValueOn(m, key) ==
  LET r == GetValue(m, key, INVALID_PAGE_ID) IN [ret |-> r.ret, result |-> r.result]

\* C1: for any sequence of Insert calls with pairwise distinct keys, every
\* Insert returns true and afterwards GetValue(k) returns true and yields
\* exactly the value inserted for k, for every inserted key k.
C1_InsertThenGetValue ==
  treeFresh =>
    /\ treeOp.op = "Insert" => treeOp.ret = TRUE
    /\ \A k \in DOMAIN treeModel :
         GetValueOn(Tree, k) = [ret |-> TRUE, result |-> <<treeModel[k]>>]

\* C2: Insert(k, v') of a key already in the tree returns false and leaves
\* the tree unchanged: GetValue(k) still returns the value first inserted,
\* and GetValue of every other key returns what it returned before.
C2_DuplicateInsertRejected ==
  [][(treeOp'.op = "Insert" /\ treeOp'.key \in DOMAIN treeModel) =>
       /\ treeOp'.ret = FALSE
       /\ root_page_id_' = root_page_id_
       /\ pages' = pages
       /\ GetValueOn(TreeAfter, treeOp'.key)
            = [ret |-> TRUE, result |-> <<treeModel[treeOp'.key]>>]
       /\ \A o \in Keys \ {treeOp'.key} : GetValueOn(TreeAfter, o) = GetValueOn(Tree, o)]_vars

\* C3: GetValue(k) for a key not stored in a tree that is not empty returns
\* false and appends nothing to the result vector.
C3_GetValueOfMissingKey ==
  ~IsEmpty(Tree) =>
    \A k \in Keys \ StoredKeys(Tree) :
      GetValueOn(Tree, k) = [ret |-> FALSE, result |-> <<>>]

\* C4: Remove(k) of a key in the tree deletes it: afterwards GetValue(k)
\* reports absence and every other stored key is still retrievable with its
\* value.
C4_RemoveDeletesKey ==
  [][(treeOp'.op = "Remove" /\ treeOp'.key \in StoredKeys(Tree)) =>
       /\ GetValueOn(TreeAfter, treeOp'.key).ret = FALSE
       /\ treeOp'.key \notin StoredKeys(TreeAfter)
       /\ \A o \in StoredKeys(Tree) \ {treeOp'.key} :
            /\ o \in StoredKeys(TreeAfter)
            /\ GetValueOn(TreeAfter, o) = GetValueOn(Tree, o)]_vars

\* C14: every call of GetValue, Insert or Remove returns with every page's
\* pin count as it was before the call (0 for a page the call created): each
\* FetchPage or NewPage of the call is matched by one UnpinPage.
C14_PinsBalanced ==
  [][treeOp'.op \in {"GetValue", "Insert", "Remove"} =>
       \A q \in DOMAIN pins' :
         pins'[q] = IF q \in DOMAIN pins THEN pins[q] ELSE 0]_vars

\* ===========================================================================
\* B+Tree: Insert of a key the tree does not hold
\* ===========================================================================
\* BPlusTreeLeafPage::Lookup never reports a key absent (BinarySearch never
\* returns -1), so a call of Insert on a tree that is not empty stops at the
\* duplicate test.  The insertion code behind that test (in place, Split,
\* InsertIntoParent) is examined here on its own: the tree is opened over an
\* index a sound build left behind, and Insert runs the path it takes when
\* Lookup reports the key absent.
SplitKeys == 1..MaxSplitKey

\* The elements of a set of keys in ascending order
RECURSIVE SortedSeq(_)
SortedSeq(S) ==
  IF S = {} THEN <<>>
  ELSE LET least == CHOOSE x \in S : \A y \in S : x <= y
       IN <<least>> \o SortedSeq(S \ {least})

\* A root leaf holding the keys of S, each with the record id of its key
ExistingLeaf(page_id, S) ==
  [type |-> "LEAF_PAGE", size |-> Cardinality(S), max_size |-> LeafMaxSize,
   page_id |-> page_id, parent_page_id |-> INVALID_PAGE_ID, next_page_id |-> INVALID_PAGE_ID,
   array |-> [j \in 1..PageSlots |->
                IF j <= Cardinality(S) THEN Pair(SortedSeq(S)[j], SortedSeq(S)[j])
                ELSE Pair(0, 0)]]

\* BPlusTree::BPlusTree(name, buffer_pool_manager, comparator, root_page_id):
\* an empty index, or an index whose root is a leaf of one to LeafMaxSize keys
InitSplit ==
  \E S \in {T \in SUBSET SplitKeys : Cardinality(T) <= LeafMaxSize} :
    /\ root_page_id_ = IF S = {} THEN INVALID_PAGE_ID ELSE 1
    /\ pages = IF S = {} THEN <<>> ELSE [q \in {1} |-> ExistingLeaf(1, S)]
    /\ pins = IF S = {} THEN [q \in {HEADER_PAGE_ID} |-> 0]
              ELSE [q \in {HEADER_PAGE_ID, 1} |-> 0]
    /\ header = IF S = {} THEN NoRecord ELSE [present |-> TRUE, root |-> 1]
    /\ npid = IF S = {} THEN 1 ELSE 2
    /\ treeOp = [op |-> "none", key |-> 0, val |-> 0, ret |-> FALSE, result |-> <<>>]
    /\ treeModel = [k \in S |-> k]
    /\ treeFresh = TRUE

\* BPlusTree::Insert of a key the tree does not hold, Lookup reporting it
\* absent
TreeInsertAbsent(m, key, value, raws, junk) ==
  IF IsEmpty(m)
  THEN [m |-> StartNewTree(m, key, value, Head(raws)), ret |-> TRUE]
  ELSE Local(FindLeafPage(m, key, FALSE, junk), LAMBDA f :
         InsertIntoLeafAbsent(f.m, f.leaf, key, value, raws))

\* Whether InsertIntoParent(old_node, ...) starts by asking for a new page:
\* old_node is the root, or its parent is full
InsertIntoParentAllocates(m, old_node) ==
  \/ m.pages[old_node].parent_page_id = INVALID_PAGE_ID
  \/ /\ Resident(m, m.pages[old_node].parent_page_id)
     /\ ~(m.pages[m.pages[old_node].parent_page_id].size
            < m.pages[m.pages[old_node].parent_page_id].max_size)

\* BPlusTree::Insert of a key the tree does not hold when the failAt-th
\* NewPage request of the call returns nullptr and the tree throws "out of
\* memory": the pool when the exception leaves Insert, and whether the call
\* gets that far.  A request that fails hands out no page id and leaves
\* root_page_id_ as it was.
TreeInsertThrows(m, key, raws, junk, failAt) ==
  IF IsEmpty(m)
  THEN [m |-> m, thrown |-> failAt = 1]
  ELSE Local(FindLeafPage(m, key, FALSE, junk), LAMBDA f :
         IF f.m.pages[f.leaf].size < f.m.pages[f.leaf].max_size
         THEN [m |-> f.m, thrown |-> FALSE]
         ELSE IF failAt = 1
         THEN [m |-> f.m, thrown |-> TRUE]
         ELSE Local(SplitLeaf(f.m, f.leaf, Head(raws)), LAMBDA sp :
              Local([sp.m EXCEPT
                       !.pages[sp.new_node].next_page_id = sp.m.pages[f.leaf].next_page_id,
                       !.pages[f.leaf].next_page_id = sp.new_node], LAMBDA m1 :
                [m |-> m1, thrown |-> InsertIntoParentAllocates(m1, f.leaf)])))

\* The page images a call of Insert for an absent key can be handed
SplitRawChoices(m, key) ==
  IF IsEmpty(m) THEN RawPages
  ELSE Local(FindLeafPage(m, key, FALSE, INVALID_PAGE_ID), LAMBDA f :
         IF f.m.pages[f.leaf].size < f.m.pages[f.leaf].max_size
         THEN {ZeroRaw} ELSE RawPages)

\* A call of BPlusTree::Insert(key, rid of key) for a key not in the tree
InsertAbsent(key) ==
  /\ key \notin DOMAIN treeModel
  /\ \E raw \in SplitRawChoices(Tree, key), junk \in JunkChoices(Tree) :
       \E r \in {TreeInsertAbsent(Tree, key, key, [i \in 1..MaxPages |-> raw], junk)} :
          /\ SetTree(r.m)
          /\ treeOp' = [op |-> "Insert", key |-> key, val |-> key, ret |-> r.ret,
                        result |-> <<>>]
  /\ treeModel' = [x \in (DOMAIN treeModel) \cup {key} |->
                     IF x = key THEN key ELSE treeModel[x]]
  /\ UNCHANGED treeFresh
  /\ UNCHANGED <<lruVars, hashVars, poolVars>>

\* A call of BPlusTree::Insert for a key not in the tree that ends in the
\* "out of memory" exception
InsertOutOfMemory(key, failAt) ==
  /\ key \notin DOMAIN treeModel
  /\ \E raw \in SplitRawChoices(Tree, key), junk \in JunkChoices(Tree) :
       \E r \in {TreeInsertThrows(Tree, key, [i \in 1..MaxPages |-> raw], junk, failAt)} :
          /\ r.thrown
          /\ SetTree(r.m)
          /\ treeOp' = [op |-> "InsertThrows", key |-> key, val |-> key, ret |-> FALSE,
                        result |-> <<>>]
  /\ UNCHANGED <<treeModel, treeFresh>>
  /\ UNCHANGED <<lruVars, hashVars, poolVars>>

NextSplit ==
  \/ \E k \in SplitKeys : InsertAbsent(k)
  \/ \E k \in SplitKeys, failAt \in 1..2 : InsertOutOfMemory(k, failAt)

\* ----------------------------------------------------- B+Tree split claims
\* Every node of m other than the root holds between ceil(max/2) and max
\* entries
NonRootWithinBounds(m) ==
  \A q \in (DOMAIN m.pages) \ {m.root} :
    /\ 2 * m.pages[q].size >= m.pages[q].max_size
    /\ m.pages[q].size <= m.pages[q].max_size

Leaves(m) == {q \in DOMAIN m.pages : m.pages[q].type = "LEAF_PAGE"}
RECURSIVE LeafChain(_, _, _)
LeafChain(m, q, fuel) ==
  IF fuel = 0 \/ q \notin Leaves(m) THEN <<>>
  ELSE <<q>> \o LeafChain(m, m.pages[q].next_page_id, fuel - 1)
\* The keys in the first size slots of the leaves of chain, in chain order
RECURSIVE ChainKeys(_, _)
ChainKeys(m, chain) ==
  IF chain = <<>> THEN <<>>
  ELSE [i \in 1..m.pages[Head(chain)].size |-> At(m.pages[Head(chain)].array, i - 1).first]
       \o ChainKeys(m, Tail(chain))
\* The chain from the leftmost leaf (FindLeafPage with leftMost) covers every
\* leaf once, ends at INVALID_PAGE_ID and lists exactly the keys stored,
\* ascending
LeafChainOrdered(m, stored) ==
  LET chain == LeafChain(m, FindLeafPage(m, 0, TRUE, INVALID_PAGE_ID).leaf, MaxPages + 1)
      keys == ChainKeys(m, chain)
  IN /\ {chain[i] : i \in 1..Len(chain)} = Leaves(m)
     /\ \A i, j \in 1..Len(chain) : i # j => chain[i] # chain[j]
     /\ chain # <<>> /\ m.pages[chain[Len(chain)]].next_page_id = INVALID_PAGE_ID
     /\ \A i \in 1..(Len(keys) - 1) : keys[i] < keys[i + 1]
     /\ {keys[i] : i \in 1..Len(keys)} = stored

C17_HeaderHoldsRoot ==
  [][root_page_id_' # root_page_id_ =>
       /\ header'.present
       /\ header'.root = root_page_id_'
       /\ (root_page_id_ = INVALID_PAGE_ID) = ~header.present]_vars
C17_Witness ==
  /\ treeOp.op = "Insert"
  /\ root_page_id_ = 3
  /\ header = [present |-> TRUE, root |-> 3]
  /\ Leaves(Tree) = {1, 2}
  /\ At(pages[3].array, 0).second = 1 /\ At(pages[3].array, 1).second = 2

\* The entries a page holds, and the pages of m reachable from the root
\* through the child ids of the pages that are not leaves
Entries(pg) == [i \in 1..pg.size |-> At(pg.array, i - 1)]
RECURSIVE ReachableFrom(_, _, _)
ReachableFrom(m, S, fuel) ==
  IF fuel = 0 THEN S
  ELSE ReachableFrom(m, S \cup ({At(m.pages[q].array, i - 1).second :
                                   q \in {p \in S : m.pages[p].type # "LEAF_PAGE"},
                                   i \in 1..PageSlots} \cap DOMAIN m.pages),
                     fuel - 1)
Reachable(m) == ReachableFrom(m, {m.root} \cap DOMAIN m.pages, MaxPages)

KeysOfAfter(q) == {At(pages'[q].array, i - 1).first : i \in 1..pages'[q].size}

\* C26: with leaf max size 3, inserting keys 10, 20, 30, 40 in that order
\* into an empty tree leaves an internal root with the single separator key
\* 30 over two leaves holding {10,20} and {30,40}, the first leaf's
\* next_page_id being the second leaf's page id.  The keys are written 1, 2,
\* 3, 4 here; the step is the fourth Insert, taken from the root leaf the
\* first three leave.
C26_SplitScenario ==
  [][(/\ LeafMaxSize = 3
      /\ root_page_id_ = 1 /\ DOMAIN pages = {1} /\ pages[1] = ExistingLeaf(1, {1, 2, 3})
      /\ treeOp'.op = "Insert" /\ treeOp'.key = 4)
       => (/\ root_page_id_' \in DOMAIN pages'
           /\ pages'[root_page_id_'].type = "INTERNAL_PAGE"
           /\ pages'[root_page_id_'].size = 2
           /\ At(pages'[root_page_id_'].array, 1).first = 3
           /\ \E l, r \in Leaves(TreeAfter) :
                /\ Leaves(TreeAfter) = {l, r}
                /\ At(pages'[root_page_id_'].array, 0).second = l
                /\ At(pages'[root_page_id_'].array, 1).second = r
                /\ KeysOfAfter(l) = {1, 2} /\ KeysOfAfter(r) = {3, 4}
                /\ pages'[l].next_page_id = r)]_vars

ChildIds == 2..(MaxPages + 1)

\* An internal page whose children are the page ids of the sequence cs, in
\* that order, separated by the keys of S in ascending order; the key of
\* slot 0 is the invalid key, and the slots past the last child hold stale
ExistingInternal(page_id, S, cs, stale) ==
  [type |-> "INTERNAL_PAGE", size |-> Len(cs), max_size |-> InternalMaxSize,
   page_id |-> page_id, parent_page_id |-> INVALID_PAGE_ID, next_page_id |-> 0,
   array |-> [j \in 1..PageSlots |->
                IF j = 1 THEN Pair(0, cs[1])
                ELSE IF j <= Len(cs) THEN Pair(SortedSeq(S)[j - 1], cs[j])
                ELSE stale]]

\* BPlusTreeLeafPage::RemoveAndDeleteRecord: the page after the call and the
\* value returned
LeafRemoveAndDeleteRecord(pg, key) ==
  LET size == pg.size
      index == BinarySearch(pg.array, size, key)
  IN IF index # -1
     THEN [page |-> [pg EXCEPT !.array = Memmove(pg.array, index + 1, index, size - index - 1),
                               !.size = size - 1],
           ret |-> size]
     ELSE [page |-> pg, ret |-> size]

\* BPlusTreeLeafPage::MoveAllTo with CopyAllFrom: this page and the recipient
\* after the call
LeafMoveAllTo(pg, recipient) ==
  LET size == pg.size
      current_size == recipient.size
  IN [node |-> [pg EXCEPT !.array = [j \in DOMAIN pg.array |->
                                       IF (j - 1) < size
                                       THEN At(recipient.array, current_size + (j - 1))
                                       ELSE pg.array[j]],
                          !.size = 0],
      recipient |-> [recipient EXCEPT !.size = current_size + size,
                                      !.next_page_id = pg.next_page_id]]

\* BPlusTreeInternalPage::SetKeyAt on page q of the pool
SetKeyAt(m, q, index, key) ==
  [m EXCEPT !.pages[q].array = Put(@, index, Pair(key, At(@, index).second))]

\* BPlusTreeLeafPage::MoveFirstToEndOf with CopyLastFrom, node and recipient
\* being page ids
LeafMoveFirstToEndOf(m, node, recipient) ==
  Local(m.pages[node], LAMBDA pg :
  Local([m EXCEPT !.pages[recipient].array = Put(@, m.pages[recipient].size, At(pg.array, 0)),
                  !.pages[recipient].size = @ + 1,
                  !.pages[node].array = Memmove(@, 0, 1, pg.size - 1),
                  !.pages[node].size = @ - 1], LAMBDA m1 :
  Local(pg.parent_page_id, LAMBDA parent_page_id :
  Local(FetchPage(m1, parent_page_id), LAMBDA m2 :
  Local(InternalValueIndex(m2.pages[parent_page_id], pg.page_id), LAMBDA index_in_parent :
    UnpinPage(SetKeyAt(m2, parent_page_id, index_in_parent, At(m2.pages[node].array, 0).first),
              parent_page_id))))))

\* BPlusTreeLeafPage::MoveLastToFrontOf with CopyFirstFrom
LeafMoveLastToFrontOf(m, node, recipient, parentIndex) ==
  Local(At(m.pages[node].array, m.pages[node].size - 1), LAMBDA item :
  Local([m EXCEPT !.pages[recipient].array = Put(Memmove(@, 1, 0, m.pages[recipient].size), 0, item),
                  !.pages[recipient].size = @ + 1], LAMBDA m1 :
  Local(m1.pages[recipient].parent_page_id, LAMBDA parent_page_id :
  Local(UnpinPage(SetKeyAt(FetchPage(m1, parent_page_id), parent_page_id, parentIndex,
                           At(m1.pages[recipient].array, 0).first),
                  parent_page_id), LAMBDA m2 :
    [m2 EXCEPT !.pages[node].size = @ - 1]))))

\* BPlusTreeInternalPage::Remove
InternalRemove(pg, index) ==
  [pg EXCEPT !.array = Memmove(pg.array, index, index + 1, pg.size - index - 1),
             !.size = pg.size - 1]

\* The child is fetched, given parent_id as parent and unpinned
SetChildParent(m, child_id, parent_id) ==
  UnpinPage([FetchPage(m, child_id) EXCEPT !.pages[child_id].parent_page_id = parent_id],
            child_id)

\* BPlusTreeInternalPage::MoveFirstToEndOf with CopyLastFrom
InternalMoveFirstToEndOf(m, node, recipient) ==
  Local(m.pages[node].parent_page_id, LAMBDA parent_id :
  Local(FetchPage(m, parent_id), LAMBDA m1 :
  Local(InternalValueIndex(m1.pages[parent_id], node), LAMBDA index_in_parent :
  Local(Pair(At(m1.pages[parent_id].array, index_in_parent).first,
             At(m1.pages[node].array, 0).second), LAMBDA pair :
  Local(UnpinPage(SetKeyAt(m1, parent_id, index_in_parent, At(m1.pages[node].array, 1).first),
                  parent_id), LAMBDA m2 :
  Local([m2 EXCEPT !.pages[node] = InternalRemove(@, 0)], LAMBDA m3 :
    SetChildParent([m3 EXCEPT !.pages[recipient].array = Put(@, m3.pages[recipient].size, pair),
                              !.pages[recipient].size = @ + 1],
                   pair.second, recipient)))))))

\* BPlusTreeInternalPage::MoveLastToFrontOf with CopyFirstFrom
InternalMoveLastToFrontOf(m, node, recipient, parent_index) ==
  Local(At(m.pages[node].array, m.pages[node].size - 1), LAMBDA last :
  Local(m.pages[recipient].parent_page_id, LAMBDA parent_page_id :
  Local(FetchPage(m, parent_page_id), LAMBDA m1 :
  Local([m1 EXCEPT !.pages[recipient].array = Put(Memmove(@, 1, 0, m1.pages[recipient].size), 0, last),
                   !.pages[recipient].size = @ + 1], LAMBDA m2 :
  Local(UnpinPage(SetKeyAt(m2, parent_page_id, parent_index, last.first), parent_page_id),
        LAMBDA m3 :
    SetChildParent(m3, last.second, recipient))))))

\* Two sibling leaves, pages 1 and 2, holding the keys of L and of R, under
\* the root, page 3
LeafSiblings(L, R) ==
  [q \in 1..3 |->
     IF q = 1 THEN [ExistingLeaf(1, L) EXCEPT !.parent_page_id = 3, !.next_page_id = 2]
     ELSE IF q = 2 THEN [ExistingLeaf(2, R) EXCEPT !.parent_page_id = 3]
     ELSE ExistingInternal(3, {SortedSeq(R)[1]}, <<1, 2>>, Pair(0, 0))]

\* Two sibling internal pages, pages 1 and 2, under the root, page 3, over
\* the leaves, pages 4 to 7, that hold the keys 1 to 4
InternalSiblings ==
  [q \in 1..7 |->
     IF q = 1 THEN [ExistingInternal(1, {2}, <<4, 5>>, Pair(0, 0)) EXCEPT !.parent_page_id = 3]
     ELSE IF q = 2 THEN [ExistingInternal(2, {4}, <<6, 7>>, Pair(0, 0)) EXCEPT !.parent_page_id = 3]
     ELSE IF q = 3 THEN ExistingInternal(3, {3}, <<1, 2>>, Pair(0, 0))
     ELSE [ExistingLeaf(q, {q - 3}) EXCEPT
             !.parent_page_id = IF q <= 5 THEN 1 ELSE 2,
             !.next_page_id = IF q < 7 THEN q + 1 ELSE INVALID_PAGE_ID]]

\* Two sibling leaves or two sibling internal pages under the root, page 3
InitSiblings ==
  /\ \/ \E L, R \in {T \in SUBSET SplitKeys : T # {} /\ Cardinality(T) <= LeafMaxSize} :
          /\ \A x \in L, y \in R : x < y
          /\ pages = LeafSiblings(L, R)
     \/ pages = InternalSiblings
  /\ root_page_id_ = 3
  /\ pins = [q \in {HEADER_PAGE_ID} \cup DOMAIN pages |-> 0]
  /\ header = [present |-> TRUE, root |-> 3]
  /\ npid = Cardinality(DOMAIN pages) + 1
  /\ treeOp = [op |-> "none", key |-> 0, val |-> 0, ret |-> FALSE, result |-> <<>>]
  /\ treeModel = <<>>
  /\ treeFresh = TRUE

\* A leaf of at most LeafMaxSize keys, or an internal page of two to
\* InternalMaxSize distinct children in any order of their page ids
InitPage ==
  /\ \/ \E S \in {T \in SUBSET SplitKeys : Cardinality(T) <= LeafMaxSize} :
          pages = [q \in {1} |-> ExistingLeaf(1, S)]
     \/ \E n \in 2..InternalMaxSize :
          \E cs \in {c \in [1..n -> ChildIds] : \A i, j \in 1..n : c[i] = c[j] => i = j},
             S \in {T \in SUBSET SplitKeys : Cardinality(T) = n - 1},
             stale \in StalePairs :
            pages = [q \in {1} |-> ExistingInternal(1, S, cs, stale)]
  /\ root_page_id_ = INVALID_PAGE_ID
  /\ pins = [q \in {HEADER_PAGE_ID, 1} |-> 0]
  /\ header = NoRecord
  /\ npid = 2
  /\ treeOp = [op |-> "none", key |-> 0, val |-> 0, ret |-> FALSE, result |-> <<>>]
  /\ treeModel = <<>>
  /\ treeFresh = TRUE

\* Whether an internal page stores child page id c
StoresChild(pg, c) == \E i \in 0..(pg.size - 1) : At(pg.array, i).second = c

\* A call of BPlusTreeInternalPage::Lookup; val is the child it returns
InternalLookupCall(key) ==
  /\ pages[1].type = "INTERNAL_PAGE"
  /\ treeOp' = [op |-> "Lookup", key |-> key, val |-> InternalLookup(pages[1], key),
                ret |-> FALSE, result |-> <<>>]
  /\ UNCHANGED <<root_page_id_, pages, pins, header, npid, treeModel, treeFresh>>
  /\ UNCHANGED <<lruVars, hashVars, poolVars>>

\* A call of BPlusTreeInternalPage::ValueIndex; result holds the index it
\* returns
InternalValueIndexCall(value) ==
  /\ pages[1].type = "INTERNAL_PAGE"
  /\ treeOp' = [op |-> "ValueIndex", key |-> 0, val |-> value, ret |-> FALSE,
                result |-> <<InternalValueIndex(pages[1], value)>>]
  /\ UNCHANGED <<root_page_id_, pages, pins, header, npid, treeModel, treeFresh>>
  /\ UNCHANGED <<lruVars, hashVars, poolVars>>

\* A call of BPlusTreeInternalPage::InsertNodeAfter on a page that is not
\* full (the assert), with a child the page stores and a new child it does
\* not; result holds old_value
InternalInsertNodeAfterCall(old_value, new_key, new_value) ==
  /\ pages[1].type = "INTERNAL_PAGE"
  /\ pages[1].size < pages[1].max_size
  /\ StoresChild(pages[1], old_value)
  /\ ~StoresChild(pages[1], new_value)
  /\ pages' = [pages EXCEPT ![1] = InternalInsertNodeAfter(pages[1], old_value, new_key, new_value)]
  /\ treeOp' = [op |-> "InsertNodeAfter", key |-> new_key, val |-> new_value, ret |-> FALSE,
                result |-> <<old_value>>]
  /\ UNCHANGED <<root_page_id_, pins, header, npid, treeModel, treeFresh>>
  /\ UNCHANGED <<lruVars, hashVars, poolVars>>

\* A call of BPlusTreeLeafPage::Insert, by a caller that has made sure of
\* space and of the key's absence; result holds the size it returns
LeafInsertCall(key, value) ==
  /\ pages[1].type = "LEAF_PAGE"
  /\ pages[1].size < pages[1].max_size
  /\ \A i \in 0..(pages[1].size - 1) : At(pages[1].array, i).first # key
  /\ pages' = [pages EXCEPT ![1] = LeafInsert(pages[1], key, value)]
  /\ treeOp' = [op |-> "LeafInsert", key |-> key, val |-> value, ret |-> FALSE,
                result |-> <<pages[1].size + 1>>]
  /\ UNCHANGED <<root_page_id_, pins, header, npid, treeModel, treeFresh>>
  /\ UNCHANGED <<lruVars, hashVars, poolVars>>

\* A call of BPlusTreeLeafPage::RemoveAndDeleteRecord on a leaf of at least
\* two entries; result holds the size it returns.  On a leaf of one entry
\* BinarySearch returns 1 and the memmove length (size - index - 1) is
\* negative, on an empty leaf the search itself runs off the page: the model
\* makes neither call.
LeafRemoveAndDeleteRecordCall(key) ==
  /\ pages[1].type = "LEAF_PAGE"
  /\ pages[1].size >= 2
  /\ \E r \in {LeafRemoveAndDeleteRecord(pages[1], key)} :
       /\ pages' = [pages EXCEPT ![1] = r.page]
       /\ treeOp' = [op |-> "RemoveAndDeleteRecord", key |-> key, val |-> 0, ret |-> FALSE,
                     result |-> <<r.ret>>]
  /\ UNCHANGED <<root_page_id_, pins, header, npid, treeModel, treeFresh>>
  /\ UNCHANGED <<lruVars, hashVars, poolVars>>

\* A call of BPlusTreeLeafPage::MoveAllTo on the right sibling, the left
\* sibling being the recipient and having room for the entries
LeafMoveAllToCall(node, recipient) ==
  /\ {node, recipient} \subseteq DOMAIN pages
  /\ pages[node].type = "LEAF_PAGE" /\ pages[recipient].type = "LEAF_PAGE"
  /\ pages[node].size + pages[recipient].size <= pages[recipient].max_size
  /\ \E r \in {LeafMoveAllTo(pages[node], pages[recipient])} :
       pages' = [pages EXCEPT ![node] = r.node, ![recipient] = r.recipient]
  /\ treeOp' = [op |-> "MoveAllTo", key |-> node, val |-> recipient, ret |-> FALSE,
                result |-> <<>>]
  /\ UNCHANGED <<root_page_id_, pins, header, npid, treeModel, treeFresh>>
  /\ UNCHANGED <<lruVars, hashVars, poolVars>>

\* The pages and pin counts of world m become the state's
SetPages(m) ==
  /\ pages' = m.pages
  /\ pins' = m.pins
  /\ UNCHANGED <<root_page_id_, header, npid, treeModel, treeFresh>>
  /\ UNCHANGED <<lruVars, hashVars, poolVars>>

\* A call of BPlusTreeLeafPage::MoveFirstToEndOf on the right sibling
LeafMoveFirstToEndOfCall(node, recipient) ==
  /\ {node, recipient} \subseteq DOMAIN pages
  /\ pages[node].type = "LEAF_PAGE" /\ pages[recipient].type = "LEAF_PAGE"
  /\ pages[node].size >= 1 /\ pages[recipient].size < pages[recipient].max_size
  /\ SetPages(LeafMoveFirstToEndOf(Tree, node, recipient))
  /\ treeOp' = [op |-> "MoveFirstToEndOf", key |-> node, val |-> recipient, ret |-> FALSE,
                result |-> <<>>]

\* A call of BPlusTreeLeafPage::MoveLastToFrontOf on the left sibling;
\* parentIndex is the recipient's slot in the parent
LeafMoveLastToFrontOfCall(node, recipient) ==
  /\ {node, recipient} \subseteq DOMAIN pages
  /\ pages[node].type = "LEAF_PAGE" /\ pages[recipient].type = "LEAF_PAGE"
  /\ pages[node].size >= 1 /\ pages[recipient].size < pages[recipient].max_size
  /\ SetPages(LeafMoveLastToFrontOf(Tree, node, recipient, 1))
  /\ treeOp' = [op |-> "MoveLastToFrontOf", key |-> node, val |-> recipient, ret |-> FALSE,
                result |-> <<>>]

\* A call of BPlusTreeInternalPage::MoveFirstToEndOf on the right sibling
InternalMoveFirstToEndOfCall(node, recipient) ==
  /\ {node, recipient} \subseteq DOMAIN pages
  /\ pages[node].type = "INTERNAL_PAGE" /\ pages[recipient].type = "INTERNAL_PAGE"
  /\ pages[node].size >= 2 /\ pages[recipient].size < pages[recipient].max_size
  /\ SetPages(InternalMoveFirstToEndOf(Tree, node, recipient))
  /\ treeOp' = [op |-> "MoveFirstToEndOf", key |-> node, val |-> recipient, ret |-> FALSE,
                result |-> <<>>]

\* A call of BPlusTreeInternalPage::MoveLastToFrontOf on the left sibling
InternalMoveLastToFrontOfCall(node, recipient) ==
  /\ {node, recipient} \subseteq DOMAIN pages
  /\ pages[node].type = "INTERNAL_PAGE" /\ pages[recipient].type = "INTERNAL_PAGE"
  /\ pages[node].size >= 2 /\ pages[recipient].size < pages[recipient].max_size
  /\ SetPages(InternalMoveLastToFrontOf(Tree, node, recipient, 1))
  /\ treeOp' = [op |-> "MoveLastToFrontOf", key |-> node, val |-> recipient, ret |-> FALSE,
                result |-> <<>>]

NextPage ==
  \/ \E key \in SplitKeys : InternalLookupCall(key)
  \/ \E value \in ChildIds : InternalValueIndexCall(value)
  \/ \E old_value \in ChildIds, new_key \in SplitKeys, new_value \in ChildIds :
       InternalInsertNodeAfterCall(old_value, new_key, new_value)
  \/ \E key \in SplitKeys : LeafInsertCall(key, key)
  \/ \E key \in SplitKeys : LeafRemoveAndDeleteRecordCall(key)

NextSiblings ==
  \/ LeafMoveAllToCall(2, 1)
  \/ LeafMoveFirstToEndOfCall(2, 1)
  \/ LeafMoveLastToFrontOfCall(1, 2)
  \/ InternalMoveFirstToEndOfCall(2, 1)
  \/ InternalMoveLastToFrontOfCall(1, 2)

\* An internal page of at least two children whose separator keys, at slots
\* 1..size-1, are strictly increasing
SeparatorsIncrease(pg) ==
  /\ pg.type = "INTERNAL_PAGE"
  /\ pg.size >= 2
  /\ \A i \in 1..(pg.size - 2) : At(pg.array, i).first < At(pg.array, i + 1).first
\* The child at the rightmost slot whose key is at most k; the child at
\* slot 0 when k is smaller than every separator key
RightmostChild(pg, k) ==
  LET hits == {i \in 1..(pg.size - 1) : At(pg.array, i).first <= k}
  IN IF hits = {} THEN At(pg.array, 0).second
     ELSE At(pg.array, CHOOSE i \in hits : \A j \in hits : j <= i).second

\* C27: for an internal page with strictly increasing separator keys at
\* slots 1..size-1, Lookup(k) returns the child stored at the rightmost slot
\* i with key(i) <= k, and the child at slot 0 when k is smaller than the key
\* at slot 1; also when k is equal to a stored separator key.
C27_LookupRightmost ==
  (treeOp.op = "Lookup" /\ SeparatorsIncrease(pages[1]))
    => treeOp.val = RightmostChild(pages[1], treeOp.key)

\* C28: internal-page ValueIndex(c) returns the slot i with
\* array[i].second = c for every child page id c stored in the page,
\* whatever the numeric order of the stored child ids, and -1 when c is not
\* stored.
C28_ValueIndexFindsChild ==
  treeOp.op = "ValueIndex"
    => IF StoresChild(pages[1], treeOp.val)
       THEN /\ treeOp.result[1] \in 0..(pages[1].size - 1)
            /\ At(pages[1].array, treeOp.result[1]).second = treeOp.val
       ELSE treeOp.result[1] = -1

\* C29: after InsertNodeAfter(old_child, key, new_child) on a non-full
\* internal page that stores old_child at slot i, slot i+1 holds
\* (key, new_child), the entries formerly at slots greater than i are each
\* shifted up by one slot in the same order, the entries at slots 0..i are
\* unchanged, and the size has grown by one.
C29_InsertNodeAfterPlacesPair ==
  [][treeOp'.op = "InsertNodeAfter"
       => \A i \in 0..(pages[1].size - 1) :
            At(pages[1].array, i).second = treeOp'.result[1]
              => /\ At(pages'[1].array, i + 1) = Pair(treeOp'.key, treeOp'.val)
                 /\ \A j \in (i + 1)..(pages[1].size - 1) :
                      At(pages'[1].array, j + 1) = At(pages[1].array, j)
                 /\ \A j \in 0..i : At(pages'[1].array, j) = At(pages[1].array, j)
                 /\ pages'[1].size = pages[1].size + 1]_vars

\* The entries of a leaf, slots 0..size-1
LeafEntries(pg) == {At(pg.array, i) : i \in 0..(pg.size - 1)}

\* C30: leaf Insert(k, v) of a key not present in a non-full leaf, at any
\* position (before the first key, between two keys, after the last key),
\* yields a leaf whose entries are exactly the old entries plus (k, v), in
\* strictly increasing key order, and returns the old size plus one.
C30_LeafInsertOrdered ==
  [][treeOp'.op = "LeafInsert"
       => /\ LeafEntries(pages'[1]) = LeafEntries(pages[1]) \cup {Pair(treeOp'.key, treeOp'.val)}
          /\ \A i \in 0..(pages'[1].size - 2) :
               At(pages'[1].array, i).first < At(pages'[1].array, i + 1).first
          /\ pages'[1].size = pages[1].size + 1
          /\ treeOp'.result[1] = pages[1].size + 1]_vars

\* The entries of a page, slots 0..size-1, as a sequence
EntrySeq(pg) == [i \in 1..pg.size |-> At(pg.array, i - 1)]

\* C31: after leaf MoveAllTo(recipient), the recipient holds its previous
\* entries followed by all of this node's former entries in order (recipient
\* size = sum of both sizes), the recipient's next_page_id equals this
\* node's former next_page_id, this node's size is 0, and no entry of either
\* node is lost or overwritten.
C31_MoveAllToAppends ==
  [][treeOp'.op = "MoveAllTo"
       => /\ EntrySeq(pages'[treeOp'.val])
               = EntrySeq(pages[treeOp'.val]) \o EntrySeq(pages[treeOp'.key])
          /\ pages'[treeOp'.val].next_page_id = pages[treeOp'.key].next_page_id
          /\ pages'[treeOp'.key].size = 0]_vars

\* C32: leaf RemoveAndDeleteRecord(k) removes exactly the entry with key k,
\* keeps the remaining entries contiguous and in their previous order, and
\* returns the size after the deletion; when k is not in the leaf the leaf
\* is unchanged and its current size is returned.
C32_RemoveAndDeleteRecord ==
  [][treeOp'.op = "RemoveAndDeleteRecord"
       => /\ EntrySeq(pages'[1]) = SelectSeq(EntrySeq(pages[1]), LAMBDA e : e.first # treeOp'.key)
          /\ treeOp'.result[1] = pages'[1].size
          /\ (\A i \in 1..pages[1].size : EntrySeq(pages[1])[i].first # treeOp'.key)
               => pages'[1] = pages[1]]_vars

\* The entry a single-entry move takes from the donor: its first, or its
\* last
MovedEntry ==
  IF treeOp'.op = "MoveFirstToEndOf" THEN At(pages[treeOp'.key].array, 0)
  ELSE At(pages[treeOp'.key].array, pages[treeOp'.key].size - 1)
\* Whether page pg, after the step, holds the moved entry (on an internal
\* page, the moved child)
HoldsMoved(pg) ==
  \E i \in 1..pg.size :
    IF pg.type = "LEAF_PAGE" THEN EntrySeq(pg)[i] = MovedEntry
    ELSE EntrySeq(pg)[i].second = MovedEntry.second

\* C33: each single-entry redistribution (MoveFirstToEndOf and
\* MoveLastToFrontOf, on leaf pages and on internal pages) decreases the
\* donor's size by exactly one and increases the recipient's size by exactly
\* one, so the moved entry (for internal pages, the moved child) is held by
\* exactly one of the two nodes afterwards.
C33_MoveOneEntry ==
  [][treeOp'.op \in {"MoveFirstToEndOf", "MoveLastToFrontOf"}
       => /\ pages'[treeOp'.key].size = pages[treeOp'.key].size - 1
          /\ pages'[treeOp'.val].size = pages[treeOp'.val].size + 1
          /\ HoldsMoved(pages'[treeOp'.key]) # HoldsMoved(pages'[treeOp'.val])]_vars

\* ===========================================================================
\* B+Tree of two levels: Insert of a key the tree does not hold, FindLeafPage
\* ===========================================================================
\* The tree is opened over an index a sound build left behind: three leaves,
\* pages 1 to 3, under an internal root, page 4, that is full.
GrownKeys == 1..MaxGrownKey

\* The keys of S from the i-th to the j-th, in ascending order
KeyBlock(S, i, j) == {SortedSeq(S)[x] : x \in i..j}

\* Three leaves holding the n1 least keys of S, the next n2 and the rest,
\* chained left to right, under the root
GrownTree(S, n1, n2) ==
  [q \in 1..4 |->
     IF q = 1 THEN [ExistingLeaf(1, KeyBlock(S, 1, n1)) EXCEPT
                      !.parent_page_id = 4, !.next_page_id = 2]
     ELSE IF q = 2 THEN [ExistingLeaf(2, KeyBlock(S, n1 + 1, n1 + n2)) EXCEPT
                           !.parent_page_id = 4, !.next_page_id = 3]
     ELSE IF q = 3 THEN [ExistingLeaf(3, KeyBlock(S, n1 + n2 + 1, Cardinality(S))) EXCEPT
                           !.parent_page_id = 4]
     ELSE ExistingInternal(4, {SortedSeq(S)[n1 + 1], SortedSeq(S)[n1 + n2 + 1]},
                           <<1, 2, 3>>, Pair(0, 0))]

\* BPlusTree::BPlusTree(name, buffer_pool_manager, comparator, root_page_id)
\* over such an index
InitGrown ==
  /\ \E S \in {T \in SUBSET GrownKeys : Cardinality(T) >= MaxGrownKey - 2 /\ Cardinality(T) < MaxGrownKey} :
       \E n1, n2 \in 1..LeafMaxSize :
         /\ Cardinality(S) - n1 - n2 \in 1..LeafMaxSize
         /\ pages = GrownTree(S, n1, n2)
         /\ treeModel = [k \in S |-> k]
  /\ root_page_id_ = 4
  /\ pins = [q \in 0..4 |-> 0]
  /\ header = [present |-> TRUE, root |-> 4]
  /\ npid = 5
  /\ treeOp = [op |-> "none", key |-> 0, val |-> 0, ret |-> FALSE, result |-> <<>>]
  /\ treeFresh = TRUE

\* The step to world m, within the bounds of this tree
SetGrown(m) ==
  /\ m.npid <= MaxGrownPages + 1
  /\ \A q \in DOMAIN m.pins : m.pins[q] <= MaxPins
  /\ root_page_id_' = m.root
  /\ pages' = m.pages
  /\ pins' = m.pins
  /\ header' = m.header
  /\ npid' = m.npid

\* A call of BPlusTree::Insert(key, rid of key) for a key not in the tree;
\* of the page images it can be handed, those whose slots all hold the same
\* stale pair
InsertGrown(key) ==
  /\ key \notin DOMAIN treeModel
  /\ \E raw \in {r \in SplitRawChoices(Tree, key) : \A j \in 1..PageSlots : r.array[j] = r.array[1]},
        junk \in JunkChoices(Tree) :
       \E r \in {TreeInsertAbsent(Tree, key, key, [i \in 1..MaxGrownPages |-> raw], junk)} :
          /\ SetGrown(r.m)
          /\ treeOp' = [op |-> "Insert", key |-> key, val |-> key, ret |-> r.ret,
                        result |-> <<>>]
  /\ treeModel' = [x \in (DOMAIN treeModel) \cup {key} |->
                     IF x = key THEN key ELSE treeModel[x]]
  /\ UNCHANGED treeFresh
  /\ UNCHANGED <<lruVars, hashVars, poolVars>>

\* A call of BPlusTree::FindLeafPage(key, false) while no page is pinned;
\* val is the page it returns
FindLeafPageCall(key) ==
  /\ \A q \in DOMAIN pins : pins[q] = 0
  /\ \E junk \in JunkChoices(Tree) :
       \E f \in {FindLeafPage(Tree, key, FALSE, junk)} :
          /\ SetGrown(f.m)
          /\ treeOp' = [op |-> "FindLeafPage", key |-> key, val |-> f.leaf, ret |-> FALSE,
                        result |-> <<>>]
  /\ UNCHANGED <<treeModel, treeFresh>>
  /\ UNCHANGED <<lruVars, hashVars, poolVars>>

NextGrown ==
  \/ \E key \in GrownKeys : InsertGrown(key)
  \/ \E key \in GrownKeys : FindLeafPageCall(key)

C35_FindLeafPinsLeafOnly ==
  [][treeOp'.op = "FindLeafPage"
       => (/\ pages'[treeOp'.val].type = "LEAF_PAGE"
           /\ pins' = [pins EXCEPT ![treeOp'.val] = @ + 1])]_vars

\* ===========================================================================
\* Buffer pool manager
\* ===========================================================================
Frames == 1..PoolSize
\* As many pages are on disk at the start as the pool has frames
DiskPages == PoolSize
PoolPids == 0..(DiskPages + MaxNewPages - 1)
\* The bytes of a page: as on disk at the start (0) or changed (1)
Data == {0, 1}

\* A frame initialised with no pin
InitPageMetadataUnpinned(pid, page) ==
  [page EXCEPT !.page_id_ = pid, !.is_dirty_ = FALSE, !.pin_count_ = 0]
\* BufferPoolManager::InitPageMetadata
InitPageMetadata(pid, page) ==
  [page EXCEPT !.page_id_ = pid, !.is_dirty_ = FALSE, !.pin_count_ = 1]

\* BufferPoolManager::ResetPageMetadata
ResetPageMetadata(page) ==
  [page EXCEPT !.page_id_ = INVALID_PAGE_ID, !.is_dirty_ = FALSE, !.pin_count_ = 0]

\* A dirty flag that is never set
SetPageDirtyNot(page) == page
\* BufferPoolManager::SetPageDirty
SetPageDirty(page) == [page EXCEPT !.is_dirty_ = TRUE]

\* BufferPoolManager::SetPageUnpin
SetPageUnpin(page) == [page EXCEPT !.pin_count_ = @ - 1]

\* BufferPoolManager::SetPagePin
SetPagePin(page) == [page EXCEPT !.pin_count_ = @ + 1]

\* replacer_->Insert, Victim and Erase on the replacer's order (LRUReplacer)
ReplacerInsert(r, f) == <<f>> \o OrderWithout(r, f)
ReplacerVictim(r) == r[Len(r)]
ReplacerErase(r, f) == OrderWithout(r, f)

\* page_table_->Insert and Remove
TableInsert(t, pid, f) == [q \in (DOMAIN t) \cup {pid} |-> IF q = pid THEN f ELSE t[q]]
TableRemove(t, pid) == [q \in (DOMAIN t) \ {pid} |-> t[q]]

\* The pool in the current state, with the events of the call so far
Pool ==
  [pages_ |-> pages_, page_table_ |-> page_table_, free_list_ |-> free_list_,
   replacer_ |-> replacer_, disk |-> disk, unflushed |-> unflushed, events |-> <<>>]

\* BufferPoolManager::BufferPoolManager: every frame free, nothing resident
InitPool ==
  /\ pages_ = [f \in Frames |-> [page_id_ |-> INVALID_PAGE_ID, pin_count_ |-> 0,
                                 is_dirty_ |-> FALSE, data |-> 0]]
  /\ page_table_ = <<>>
  /\ free_list_ = [i \in 1..PoolSize |-> i]
  /\ replacer_ = <<>>
  /\ disk = [q \in PoolPids |-> 0]
  /\ next_page_id_ = DiskPages
  /\ poolOp = [op |-> "none", pid |-> INVALID_PAGE_ID, ret |-> FALSE, events |-> <<>>]
  /\ unflushed = {}

\* A frame for a page that is not resident: from the free list, else the
\* replacer's victim, whose bytes are written to disk first if it is dirty
TakeFrame(P) ==
  IF P.free_list_ # <<>>
  THEN [ok |-> TRUE, f |-> Head(P.free_list_),
        P |-> [P EXCEPT !.free_list_ = Tail(P.free_list_)]]
  ELSE IF P.replacer_ # <<>>
  THEN Local(ReplacerVictim(P.replacer_), LAMBDA f :
       Local(P.pages_[f], LAMBDA pg :
         [ok |-> TRUE, f |-> f,
          P |-> [P EXCEPT
                   !.replacer_ = SubSeq(P.replacer_, 1, Len(P.replacer_) - 1),
                   !.page_table_ = TableRemove(P.page_table_, pg.page_id_),
                   !.disk = IF pg.is_dirty_ THEN [P.disk EXCEPT ![pg.page_id_] = pg.data]
                            ELSE P.disk,
                   !.events = IF pg.is_dirty_ THEN Append(P.events, <<"write", pg.page_id_>>)
                              ELSE P.events,
                   !.unflushed = P.unflushed \ {pg.page_id_}]]))
  ELSE [ok |-> FALSE, f |-> 0, P |-> P]

\* The frame f of P given to page pid with the bytes bytes, pinned once
Install(P, f, pid, bytes) ==
  [P EXCEPT !.pages_[f] = [InitPageMetadata(pid, P.pages_[f]) EXCEPT !.data = bytes],
            !.page_table_ = TableInsert(P.page_table_, pid, f),
            !.events = Append(P.events, <<"host", f, pid>>)]

\* BufferPoolManager::FetchPage: the pool after the call and whether a frame
\* is returned.  A resident page that was unpinned leaves the replacer.
FetchPageOn(P, pid) ==
  IF pid \in DOMAIN P.page_table_
  THEN Local(P.page_table_[pid], LAMBDA f :
         [ret |-> TRUE,
          P |-> [P EXCEPT !.pages_[f] = SetPagePin(P.pages_[f]),
                          !.replacer_ = ReplacerErase(P.replacer_, f)]])
  ELSE Local(TakeFrame(P), LAMBDA r :
         IF r.ok THEN [ret |-> TRUE, P |-> Install(r.P, r.f, pid, r.P.disk[pid])]
         ELSE [ret |-> FALSE, P |-> P])

\* BufferPoolManager::UnpinPage
UnpinPageOn(P, pid, is_dirty) ==
  IF pid \notin DOMAIN P.page_table_ \/ P.pages_[P.page_table_[pid]].pin_count_ = 0
  THEN [ret |-> FALSE, P |-> P]
  ELSE Local(P.page_table_[pid], LAMBDA f :
       Local(SetPageUnpin(IF is_dirty THEN SetPageDirty(P.pages_[f]) ELSE P.pages_[f]),
             LAMBDA pg :
         [ret |-> TRUE,
          P |-> [P EXCEPT !.pages_[f] = pg,
                          !.replacer_ = IF pg.pin_count_ = 0 THEN ReplacerInsert(P.replacer_, f)
                                        ELSE P.replacer_,
                          !.unflushed = IF is_dirty THEN P.unflushed \cup {pid}
                                        ELSE P.unflushed]]))

\* BufferPoolManager::FlushPage
FlushPageOn(P, pid) ==
  IF pid \notin DOMAIN P.page_table_
  THEN [ret |-> FALSE, P |-> P]
  ELSE Local(P.page_table_[pid], LAMBDA f :
         [ret |-> TRUE,
          P |-> [P EXCEPT !.disk[pid] = P.pages_[f].data,
                          !.pages_[f].is_dirty_ = FALSE,
                          !.events = Append(P.events, <<"write", pid>>),
                          !.unflushed = P.unflushed \ {pid}]])

\* BufferPoolManager::NewPage for the page id pid the disk manager allocated
NewPageOn(P, pid) ==
  Local(TakeFrame(P), LAMBDA r :
    IF r.ok THEN [ret |-> TRUE, P |-> Install(r.P, r.f, pid, 0)]
    ELSE [ret |-> FALSE, P |-> P])

\* BufferPoolManager::DeletePage
DeletePageOn(P, pid) ==
  IF pid \notin DOMAIN P.page_table_
  THEN [ret |-> TRUE, P |-> P]
  ELSE Local(P.page_table_[pid], LAMBDA f :
         IF P.pages_[f].pin_count_ # 0
         THEN [ret |-> FALSE, P |-> P]
         ELSE [ret |-> TRUE,
               P |-> [P EXCEPT !.replacer_ = ReplacerErase(P.replacer_, f),
                               !.page_table_ = TableRemove(P.page_table_, pid),
                               !.pages_[f] = ResetPageMetadata(P.pages_[f]),
                               !.free_list_ = Append(P.free_list_, f),
                               !.unflushed = P.unflushed \ {pid}]])

\* The state after a call that leaves the pool P and returns ret
SetPool(op, pid, r) ==
  /\ \A f \in Frames : r.P.pages_[f].pin_count_ <= MaxPoolPins
  /\ pages_' = r.P.pages_
  /\ page_table_' = r.P.page_table_
  /\ free_list_' = r.P.free_list_
  /\ replacer_' = r.P.replacer_
  /\ disk' = r.P.disk
  /\ unflushed' = r.P.unflushed
  /\ poolOp' = [op |-> op, pid |-> pid, ret |-> r.ret, events |-> r.P.events]
  /\ UNCHANGED <<lruVars, hashVars, treeVars>>

\* The page ids a caller can name: those on disk at the start and those
\* NewPage has handed out
KnownPids == 0..(next_page_id_ - 1)

PoolFetchPage(pid) ==
  /\ pid \in KnownPids
  /\ \E r \in {FetchPageOn(Pool, pid)} : SetPool("FetchPage", pid, r)
  /\ UNCHANGED next_page_id_

PoolUnpinPage(pid, is_dirty) ==
  /\ pid \in KnownPids
  /\ \E r \in {UnpinPageOn(Pool, pid, is_dirty)} : SetPool("UnpinPage", pid, r)
  /\ UNCHANGED next_page_id_

PoolFlushPage(pid) ==
  /\ pid \in KnownPids
  /\ \E r \in {FlushPageOn(Pool, pid)} : SetPool("FlushPage", pid, r)
  /\ UNCHANGED next_page_id_

PoolNewPage ==
  /\ next_page_id_ \in PoolPids
  /\ \E r \in {NewPageOn(Pool, next_page_id_)} : SetPool("NewPage", next_page_id_, r)
  /\ next_page_id_' = next_page_id_ + 1

PoolDeletePage(pid) ==
  /\ pid \in KnownPids
  /\ \E r \in {DeletePageOn(Pool, pid)} : SetPool("DeletePage", pid, r)
  /\ UNCHANGED next_page_id_

\* The holder of a pin changes the bytes of the page
PoolWriteData(pid, bytes) ==
  /\ pid \in DOMAIN page_table_
  /\ pages_[page_table_[pid]].pin_count_ > 0
  /\ pages_[page_table_[pid]].data # bytes
  /\ pages_' = [pages_ EXCEPT ![page_table_[pid]].data = bytes]
  /\ poolOp' = [op |-> "WriteData", pid |-> pid, ret |-> TRUE, events |-> <<>>]
  /\ UNCHANGED <<page_table_, free_list_, replacer_, disk, next_page_id_, unflushed>>
  /\ UNCHANGED <<lruVars, hashVars, treeVars>>

NextPool ==
  \/ \E pid \in PoolPids : PoolFetchPage(pid)
  \/ \E pid \in PoolPids, is_dirty \in BOOLEAN : PoolUnpinPage(pid, is_dirty)
  \/ \E pid \in PoolPids : PoolFlushPage(pid)
  \/ PoolNewPage
  \/ \E pid \in PoolPids : PoolDeletePage(pid)
  \/ \E pid \in PoolPids, bytes \in Data : PoolWriteData(pid, bytes)

\* ------------------------------------------------------- buffer pool claims
FreeFrames == {free_list_[i] : i \in 1..Len(free_list_)}
ReplacerFrames == {replacer_[i] : i \in 1..Len(replacer_)}
PinnedFrames == {f \in Frames : pages_[f].pin_count_ >= 1}
HoldsPage(f) == pages_[f].page_id_ # INVALID_PAGE_ID

C13_DirtyVictimWrittenFirst ==
  [][poolOp'.op \in {"FetchPage", "NewPage"} =>
       \A f \in Frames :
         LET old == pages_[f].page_id_
             new == pages_'[f].page_id_
             ev == poolOp'.events
         IN (old # INVALID_PAGE_ID /\ new # old) =>
              IF old \in unflushed
              THEN /\ disk'[old] = pages_[f].data
                   /\ \E i, j \in 1..Len(ev) :
                        /\ i < j
                        /\ ev[i] = <<"write", old>>
                        /\ ev[j] = <<"host", f, new>>
              ELSE /\ disk' = disk
                   /\ \A i \in 1..Len(ev) : ev[i][1] # "write"]_vars

\* A fetch evicted a dirty page whose bytes were changed: the write of the
\* old page precedes the frame's new page, and the disk holds the new bytes.
C13_Witness ==
  /\ poolOp.op = "FetchPage"
  /\ Len(poolOp.events) = 2
  /\ poolOp.events[1][1] = "write"
  /\ poolOp.events[2][1] = "host"
  /\ disk[poolOp.events[1][2]] = 1

\* ===========================================================================
\* Specifications: one per component, the others left as constructed
\* ===========================================================================
Init == InitLRU /\ InitHash /\ InitTree /\ InitPool

SpecLRU == Init /\ [][NextLRU]_vars
SpecHash == Init /\ [][NextHash]_vars
SpecTree == Init /\ [][NextTree]_vars
InitOpened == InitLRU /\ InitHash /\ InitSplit /\ InitPool
SpecSplit == InitOpened /\ [][NextSplit]_vars
SpecHashDeep == Init /\ [][NextHashDeep]_vars
SpecHashThreads == Init /\ [][NextHashThreads]_vars
InitPages == InitLRU /\ InitHash /\ InitPage /\ InitPool
InitTwoLevels == InitLRU /\ InitHash /\ InitGrown /\ InitPool
SpecGrown == InitTwoLevels /\ [][NextGrown]_vars
SpecPage == InitPages /\ [][NextPage]_vars
InitSiblingPages == InitLRU /\ InitHash /\ InitSiblings /\ InitPool
SpecSiblings == InitSiblingPages /\ [][NextSiblings]_vars
SpecPool == Init /\ [][NextPool]_vars

====
